---- MODULE Spec2Model ----
(***************************************************************************)
(* Model of the telegramBotEmbed question/answer core:                     *)
(*   - GeminiKeyManager (src/src/gemini/key_manager.rs): the credential    *)
(*     pool with round-robin selection, budgets and lazy re-enable;        *)
(*   - generate_embedding_with_retry (src/src/qa/embedding.rs);            *)
(*   - QAService (src/src/qa/service.rs) and the startup load task of      *)
(*     src/src/main.rs.                                                    *)
(*                                                                         *)
(* Time.  The clock is Utc::now().  The model counts time in ticks and     *)
(* stores every instant relative to the current one: a request timestamp   *)
(* t as its age now - t, a disabled_until boundary d as the time left      *)
(* d - now, a sleep as the ticks left to sleep.  Only the time of day      *)
(* (tod) is kept of the clock itself, because disable_key needs the next   *)
(* midnight.  Ages stop growing at DAY (such a timestamp is pruned by the  *)
(* next get_key whatever its exact age) and time left stops falling at -1  *)
(* (the boundary is past).  The durations keep their order                 *)
(* 5 s < 60 s < 1 day.                                                     *)
(*                                                                         *)
(* Specifications.  SpecPool is the pool under concurrent direct callers,  *)
(* SpecEmbed the retry loop over the pool, SpecQA the service from its     *)
(* construction (load task and handlers), SpecCrud the service after a     *)
(* load that returned Ok.  In SpecQA and SpecCrud a call of                *)
(* generate_embedding_with_retry is one step with either of its returns    *)
(* (EmbedResults); the loop behind them is SpecEmbed.                      *)
(***************************************************************************)
EXTENDS Integers, Sequences, FiniteSets, TLC

(* ---------------------------- bounds ----------------------------------- *)
\* number of credentials in config.embedding.api_keys
NumKeys == 2
\* number of concurrently running tasks (threads / bot handlers)
NumTasks == 2
\* config.embedding.rpm and config.embedding.rpd
RpmLimit == 1
RpdLimit == 2
\* the most items the list qa_data is let grow to
MaxItems == 2

(* ----------------------- program constants, in ticks ------------------- *)
\* chrono::Duration::minutes(1)
MINUTE == 2
\* chrono::Duration::days(1)
DAY == 5
\* generate_embedding_with_retry: `const MAX_ATTEMPTS: u32 = 10`
MAX_ATTEMPTS == 10
\* generate_embedding_with_retry: `sleep(Duration::from_secs(60))`
NO_KEY_SLEEP == 2
\* generate_embedding_with_retry: `sleep(Duration::from_secs(5))`
RETRY_SLEEP == 1

Tasks == 1..NumTasks

\* the task that calls generate_embedding_with_retry: every caller holds the
\* QAService mutex, so the calls come one at a time and one task makes them
Embedder == {1}

\* the texts to embed, and the vector the provider computes for each
Texts == {"q1", "q2"}

VecOf(text) ==
  CASE text = "q1" -> <<1, 0, 0, 0>>
    [] text = "q2" -> <<0, 1, 0, 0>>
    [] text = "q3" -> <<1, 1, 1, 1>>
    [] OTHER -> <<0, 0, 0, 0>>

\* the texts find_matching_qa is asked about: a stored question, a text as
\* near to q1 as to q2, a text the provider answers with the zero vector
QueryTexts == {"q1", "q3", "q0"}

\* what generate_single_embedding returns: Ok(vector), or an error whose
\* lower-cased text may contain "429" and may contain
\* "resource has been exhausted"
ProviderErrors == [has429 : BOOLEAN, hasExhausted : BOOLEAN]

\* Option<T>: None is the empty sequence, Some(x) the one-element sequence
None == <<>>

Some(x) == <<x>>

\* the secrets of the configuration, one per credential, all different
api_keys == [i \in 1..NumKeys |-> i]

\* a secret that no credential of the pool has
UnknownKey == 0

VARIABLES
  tod,                  \* time of day of the clock, 0 .. DAY-1
  keys,                 \* GeminiKeyManager.keys: sequence of ApiKey
  last_used_key_index,  \* GeminiKeyManager.last_used_key_index (0-based)
  keys_lock,            \* owner of the keys mutex, 0 when free
  pc,                   \* pc[t]: where task t stands
  op,                   \* op[t]: the outermost call task t is running
  api_key,              \* api_key[t]: the secret task t holds / passes
  text,                 \* text[t]: the text task t is embedding
  attempts,             \* attempts[t]: generate_embedding_with_retry::attempts
  sleep_left,           \* sleep_left[t]: ticks left of the sleep of task t
  ret,                  \* ret[t]: what the latest call of task t returned
  iter,                 \* history: how the latest iteration of the retry loop
                        \*   of task t ended, the key it used, the ticks slept since
  granted,              \* history: ages (< DAY) of the get_key returns of each credential
  rr_run,               \* history: indices returned by the latest consecutive
                        \*   get_key calls that found every credential usable
  last_call,            \* history: the latest completed pool call
  qa_data,              \* QASystem.qa_data: sequence of QAItem
  question_embeddings,  \* QASystem.question_embeddings: sequence of vectors
  qa_lock,              \* owner of the QAService mutex, 0 when free
  is_qa_ready,          \* AppState.is_qa_ready
  qa_json,              \* the QA JSON file: the list last written to it
  cache_file,           \* the embeddings cache file: question hash -> vector
  svc_pc,               \* svc_pc[p]: where process p stands in a QAService call
  svc_call,             \* svc_call[p]: the QAService call process p is running
  svc_ret,              \* the latest return of a QAService call: the process, the result
  final_embeddings,     \* load_and_embed_all::final_embeddings
  embeddings_cache,     \* load_and_embed_all::embeddings_cache
  cache_was_updated,    \* load_and_embed_all::cache_was_updated
  json_local,           \* json_local[t]: add_qa_item_to_json::qa_data of task t
  mgmt_added,           \* history: the items management::add_qa wrote to the file
  cache_disk,           \* the embeddings cache file as text: whether it exists, its tokens
  cache_op,             \* the latest call of save_embeddings_cache or
                        \*   load_embeddings_cache, with its arguments and result
  sim_call,             \* the latest call of search::cosine_similarity: arguments, result
  list_disk,            \* the whole-list cache of qa/mod.rs: the cache file and the hash file
  list_op,              \* the latest call of save_embeddings_cache or load_cached_embeddings of qa/mod.rs
  state_lock,           \* owner of the AppState mutex, 0 when free
  pending_qas,          \* AppState.pending_qas: the pending edit of each chat's prompt message
  handler,              \* handler[t]: where the bot handler of task t stands, and its locals
  sent,                 \* history: sent[t], the outcome the handler of task t last reported
  restarted_from        \* history: the lists of the service and its last return when the
                        \* process was restarted, None before

poolVars == <<tod, keys, last_used_key_index, keys_lock, granted, rr_run, last_call>>

embedVars == <<text, attempts, sleep_left, ret, iter>>

qaVars == <<qa_data, question_embeddings, qa_lock, is_qa_ready, qa_json, cache_file,
            svc_pc, svc_call, svc_ret, final_embeddings, embeddings_cache, cache_was_updated,
            json_local, mgmt_added, cache_disk, cache_op, sim_call, list_disk, list_op, state_lock, pending_qas, handler, sent, restarted_from>>

vars == <<tod, keys, last_used_key_index, keys_lock, pc, op, api_key,
          text, attempts, sleep_left, ret, iter,
          granted, rr_run, last_call,
          qa_data, question_embeddings, qa_lock, is_qa_ready, qa_json, cache_file,
          svc_pc, svc_call, svc_ret, final_embeddings, embeddings_cache, cache_was_updated,
          json_local, mgmt_added, cache_disk, cache_op, sim_call, list_disk, list_op, state_lock, pending_qas, handler, sent, restarted_from>>

(* ------------------------- sequence helpers ---------------------------- *)
SeqMap(f(_), s) == [i \in 1..Len(s) |-> f(s[i])]

CountIf(P(_), s) == Cardinality({i \in 1..Len(s) : P(s[i])})

(* --------------------------- GeminiKeyManager -------------------------- *)
\* GeminiKeyManager::new: every key enabled, no requests
NewKeys == [i \in 1..NumKeys |-> [key |-> api_keys[i], disabled_until |-> None, requests |-> <<>>]]

\* (mutant) re-enables only after the boundary, not at it
ReenableIfDue_Strict(k) ==
  IF k.disabled_until # None /\ k.disabled_until[1] < 0
  THEN [k EXCEPT !.disabled_until = None]
  ELSE k

\* get_key, first loop: `if now >= disabled_until { disabled_until = None }`
ReenableIfDue(k) ==
  IF k.disabled_until # None /\ k.disabled_until[1] <= 0
  THEN [k EXCEPT !.disabled_until = None]
  ELSE k

\* get_key, first loop: `requests.retain(|&t| t > one_day_ago)`
InDay(age) == age < DAY

PruneRequests(k) == [k EXCEPT !.requests = SelectSeq(k.requests, InDay)]

UpdateStatus(k) == PruneRequests(ReenableIfDue(k))

InMinute(age) == age < MINUTE

\* (mutant) does not look at disabled_until
is_usable_IgnoresDisabled(k) ==
  IF Len(k.requests) >= RpdLimit THEN FALSE
  ELSE CountIf(InMinute, k.requests) < RpmLimit

\* (mutant) lets one request too many into the minute
is_usable_MinuteOffByOne(k) ==
  IF k.disabled_until # None THEN FALSE
  ELSE IF Len(k.requests) >= RpdLimit THEN FALSE
  ELSE CountIf(InMinute, k.requests) <= RpmLimit

\* get_key: the `is_usable` block
is_usable(k) ==
  IF k.disabled_until # None THEN FALSE
  ELSE IF Len(k.requests) >= RpdLimit THEN FALSE
  ELSE CountIf(InMinute, k.requests) < RpmLimit

\* (mutant) starts the scan at the last returned index
start_idx_NoAdvance(last, n) == last % n

\* get_key: `let start_idx = (*last_idx + 1) % keys_guard.len()`
start_idx(last, n) == (last + 1) % n

\* (mutant) the scan stops one key short
ScanRange_Short(n) == 0..(n - 2)

\* get_key: `for i in 0..keys_guard.len()`
ScanRange(n) == 0..(n - 1)

\* get_key: the round-robin scan; the 0-based index of the first usable key
\* in cyclic order from start, or -1 when the loop finds none
FirstUsable(ks, start) ==
  LET n == Len(ks)
      hits == {i \in ScanRange(n) : is_usable(ks[((start + i) % n) + 1])}
  IN IF hits = {} THEN -1
     ELSE LET i == CHOOSE i \in hits : \A j \in hits : i <= j
          IN (start + i) % n

\* get_key: the new cursor on success
NewCursor(last, idx) == idx

\* get_key as a function of the pool state: the new keys, the new cursor
\* and the result (ok, the secret, the 0-based index)
get_key(ks, last) ==
  LET ks1 == SeqMap(UpdateStatus, ks)
  IN IF Len(ks1) = 0
     THEN [keys |-> ks1, last |-> last, ok |-> FALSE, key |-> UnknownKey, idx |-> -1]
     ELSE LET idx == FirstUsable(ks1, start_idx(last, Len(ks1)))
          IN IF idx >= 0
             THEN [keys |-> [ks1 EXCEPT ![idx + 1].requests = Append(@, 0)],
                   last |-> NewCursor(last, idx), ok |-> TRUE,
                   key |-> ks1[idx + 1].key, idx |-> idx]
             ELSE [keys |-> ks1, last |-> last, ok |-> FALSE, key |-> UnknownKey, idx |-> -1]

\* disable_key: midnight UTC of the next day, as time left from now
Tomorrow(t) == DAY - t

\* (mutant) disables every credential of the pool
disable_key_All(ks, secret, t) ==
  [i \in 1..Len(ks) |-> [ks[i] EXCEPT !.disabled_until = Some(Tomorrow(t))]]

\* disable_key: the first key whose secret matches, if any
disable_key(ks, secret, t) ==
  LET hits == {i \in 1..Len(ks) : ks[i].key = secret}
  IN IF hits = {} THEN ks
     ELSE LET i == CHOOSE i \in hits : \A j \in hits : i <= j
          IN [ks EXCEPT ![i].disabled_until = Some(Tomorrow(t))]

(* ------------------- what is true of a credential ---------------------- *)
\* disabled_until is still in the future
DisabledNow(k) == k.disabled_until # None /\ k.disabled_until[1] > 0

\* disabled_until is set and the clock has reached it
DueNow(k) == k.disabled_until # None /\ k.disabled_until[1] <= 0

\* number of get_key returns of credential i (1-based) in the trailing window
GrantsWithin(i, window) == Cardinality({j \in 1..Len(granted[i]) : granted[i][j] < window})

OverBudget(i) == GrantsWithin(i, MINUTE) >= RpmLimit \/ GrantsWithin(i, DAY) >= RpdLimit

UsableNow(i) == ~DisabledNow(keys[i]) /\ ~OverBudget(i)

AllUsable == \A i \in 1..Len(keys) : UsableNow(i)

\* the history record of a pool call: the result, and what was true of the
\* credentials (1-based) and of the cursor when the call was made
NoCall == [op |-> "none", task |-> 0, ok |-> FALSE, idx |-> -1, secret |-> UnknownKey,
           cursor |-> -1, disabled |-> {}, over |-> {}, due |-> {}]

(* ------------------------------ the clock ------------------------------ *)
TickKey(k) ==
  [k EXCEPT !.disabled_until = IF @ = None THEN None
                               ELSE IF @[1] > -1 THEN Some(@[1] - 1) ELSE @,
            !.requests = [j \in 1..Len(@) |-> IF @[j] < DAY THEN @[j] + 1 ELSE @[j]]]

StillInDay(age) == age + 1 < DAY

Older(age) == age + 1

TickGrants(g) == SeqMap(Older, SelectSeq(g, StillInDay))

\* one tick of time passes
Tick ==
  /\ tod' = (tod + 1) % DAY
  /\ keys' = SeqMap(TickKey, keys)
  /\ granted' = [i \in DOMAIN granted |-> TickGrants(granted[i])]
  /\ last_call' = NoCall
  /\ sleep_left' = [t \in Tasks |-> IF sleep_left[t] > 0 THEN sleep_left[t] - 1 ELSE 0]
  /\ iter' = [t \in Tasks |-> IF pc[t] = "sleep" /\ sleep_left[t] > 0
                                THEN [iter[t] EXCEPT !.slept = @ + 1] ELSE iter[t]]
  /\ UNCHANGED <<last_used_key_index, keys_lock, pc, op, api_key, rr_run, text, attempts, ret>>
  /\ UNCHANGED qaVars

(* ------------------------ direct calls of the pool --------------------- *)
\* (mutant) the guard outlives the call: the mutex stays with the caller
GuardDropped_Kept(t) == t

\* the MutexGuard is dropped when get_key or disable_key returns: the owner
\* of the mutex afterwards
GuardDropped(t) == 0

\* `self.keys.lock().unwrap()`: the caller blocks until the mutex is free
KeysLock(t) ==
  /\ keys_lock = 0
  /\ keys_lock' = t
  /\ last_call' = NoCall

\* a task calls key_manager.get_key() and takes the lock
CallGetKey(t) ==
  /\ pc[t] = "idle"
  /\ KeysLock(t)
  /\ pc' = [pc EXCEPT ![t] = "get_key_locked"]
  /\ op' = [op EXCEPT ![t] = "get_key"]
  /\ UNCHANGED <<tod, keys, last_used_key_index, api_key, granted, rr_run>>
  /\ UNCHANGED embedVars
  /\ UNCHANGED qaVars

\* a task calls key_manager.disable_key(secret) and takes the lock
CallDisableKey(t, secret) ==
  /\ pc[t] = "idle"
  /\ KeysLock(t)
  /\ pc' = [pc EXCEPT ![t] = "disable_key_locked"]
  /\ op' = [op EXCEPT ![t] = "disable_key"]
  /\ api_key' = [api_key EXCEPT ![t] = secret]
  /\ UNCHANGED <<tod, keys, last_used_key_index, granted, rr_run>>
  /\ UNCHANGED embedVars
  /\ UNCHANGED qaVars

\* the history kept of a get_key call
GetKeyRecord(t, r) ==
  [op |-> "get_key", task |-> t, ok |-> r.ok, idx |-> r.idx, secret |-> r.key,
   cursor |-> last_used_key_index,
   disabled |-> {i \in 1..Len(keys) : DisabledNow(keys[i])},
   over |-> {i \in 1..Len(keys) : OverBudget(i)},
   due |-> {i \in 1..Len(keys) : DueNow(keys[i])}]

GetKeyHistory(t, r) ==
  /\ granted' = IF r.ok THEN [granted EXCEPT ![r.idx + 1] = Append(@, 0)] ELSE granted
  /\ rr_run' = IF AllUsable /\ r.ok
               THEN (IF Len(rr_run) < NumKeys THEN Append(rr_run, r.idx)
                     ELSE Append(Tail(rr_run), r.idx))
               ELSE <<>>
  /\ last_call' = GetKeyRecord(t, r)

\* the body of get_key, under the lock, up to the release of the lock
GetKeyBody(t, r) ==
  /\ pc[t] = "get_key_locked"
  /\ keys_lock = t
  /\ keys' = r.keys
  /\ last_used_key_index' = r.last
  /\ keys_lock' = GuardDropped(t)
  /\ GetKeyHistory(t, r)
  /\ UNCHANGED tod

\* the body of disable_key, under the lock, up to the release of the lock
DisableKeyBody(t) ==
  /\ pc[t] = "disable_key_locked"
  /\ keys_lock = t
  /\ keys' = disable_key(keys, api_key[t], tod)
  /\ keys_lock' = GuardDropped(t)
  /\ rr_run' = <<>>
  /\ last_call' = [NoCall EXCEPT !.op = "disable_key", !.task = t, !.secret = api_key[t],
                                 !.disabled = {i \in 1..Len(keys) : DisabledNow(keys[i])}]
  /\ UNCHANGED <<tod, last_used_key_index, granted>>

\* get_key returns to a direct caller
GetKey(t) ==
  /\ op[t] = "get_key"
  /\ GetKeyBody(t, get_key(keys, last_used_key_index))
  /\ pc' = [pc EXCEPT ![t] = "idle"]
  /\ op' = [op EXCEPT ![t] = "none"]
  /\ UNCHANGED api_key
  /\ UNCHANGED embedVars
  /\ UNCHANGED qaVars

\* disable_key returns to a direct caller
DisableKey(t) ==
  /\ op[t] = "disable_key"
  /\ DisableKeyBody(t)
  /\ pc' = [pc EXCEPT ![t] = "idle"]
  /\ op' = [op EXCEPT ![t] = "none"]
  /\ api_key' = [api_key EXCEPT ![t] = UnknownKey]
  /\ UNCHANGED embedVars
  /\ UNCHANGED qaVars

(* ------------------- generate_embedding_with_retry --------------------- *)
NoRet == [kind |-> "none", vec |-> <<>>, attempts |-> 0]

\* the history record of an iteration of the retry loop: how it failed, the
\* key it used, whether disable_key was called since, the ticks slept since,
\* and the number of failed iterations of the call
NoIter == [fail |-> "none", key |-> UnknownKey, disabled |-> FALSE, slept |-> 0, fails |-> 0]

\* the error branch: `contains("429") || contains("resource has been exhausted")`
is_rate_limited(e) == e.has429 \/ e.hasExhausted

\* (mutant) asks the pool again at once when it has no key to give
SleepAfter_NoKeySpin(branch) ==
  CASE branch = "no_key" -> 0
    [] branch = "rate_limited" -> 0
    [] branch = "other" -> RETRY_SLEEP

\* (mutant) retries at once after any provider failure
SleepAfter_NoRetrySleep(branch) ==
  CASE branch = "no_key" -> NO_KEY_SLEEP
    [] branch = "rate_limited" -> 0
    [] branch = "other" -> 0

\* the sleep of each branch of the loop: none before `continue` in the
\* rate-limit branch
SleepAfter(branch) ==
  CASE branch = "no_key" -> NO_KEY_SLEEP
    [] branch = "rate_limited" -> 0
    [] branch = "other" -> RETRY_SLEEP

\* (mutant) never reports a key to the pool
DisablesKey_Never(branch) == FALSE

\* the rate-limit branch: `key_manager.disable_key(&api_key)`
DisablesKey(branch) == branch = "rate_limited"

KeyToDisable(used) == used

\* (mutant) allows one iteration more
Exhausted_OffByOne(n) == n > MAX_ATTEMPTS

\* `if attempts >= MAX_ATTEMPTS { return Err(..) }`
Exhausted(n) == n >= MAX_ATTEMPTS

\* a task calls generate_embedding_with_retry(config, key_manager, txt)
CallEmbed(t, txt) ==
  /\ pc[t] = "idle"
  /\ pc' = [pc EXCEPT ![t] = "loop"]
  /\ op' = [op EXCEPT ![t] = "embed"]
  /\ text' = [text EXCEPT ![t] = txt]
  /\ attempts' = [attempts EXCEPT ![t] = 0]
  /\ ret' = [ret EXCEPT ![t] = NoRet]
  /\ iter' = [iter EXCEPT ![t] = NoIter]
  /\ last_call' = NoCall
  /\ UNCHANGED <<tod, keys, last_used_key_index, keys_lock, api_key, sleep_left, granted, rr_run>>
  /\ UNCHANGED qaVars

\* the task is at the top of the loop: it entered it, came back from
\* disable_key, or its sleep is over
AtLoopTop(t) == pc[t] = "loop" \/ (pc[t] = "sleep" /\ sleep_left[t] = 0)

\* the value generate_embedding_with_retry returns to its caller
EmbedReturn(t, kind, vec) ==
  /\ ret' = [ret EXCEPT ![t] = [kind |-> kind, vec |-> vec, attempts |-> attempts[t]]]
  /\ attempts' = [attempts EXCEPT ![t] = 0]
  /\ api_key' = [api_key EXCEPT ![t] = UnknownKey]
  /\ pc' = [pc EXCEPT ![t] = "idle"]
  /\ op' = [op EXCEPT ![t] = "none"]

\* top of the loop with the ceiling reached: return Err
EmbedGiveUp(t) ==
  /\ AtLoopTop(t)
  /\ Exhausted(attempts[t])
  /\ EmbedReturn(t, "err", <<>>)
  /\ last_call' = NoCall
  /\ UNCHANGED <<tod, keys, last_used_key_index, keys_lock, text, sleep_left, iter, granted, rr_run>>
  /\ UNCHANGED qaVars

\* top of the loop: `attempts += 1`, then get_key takes the lock
EmbedAttempt(t) ==
  /\ AtLoopTop(t)
  /\ ~Exhausted(attempts[t])
  /\ KeysLock(t)
  /\ attempts' = [attempts EXCEPT ![t] = @ + 1]
  /\ pc' = [pc EXCEPT ![t] = "get_key_locked"]
  /\ UNCHANGED <<tod, keys, last_used_key_index, op, api_key, text, sleep_left, ret, iter, granted, rr_run>>
  /\ UNCHANGED qaVars

\* `match key_manager.get_key()`: Ok(key) goes on to the provider, Err
\* sleeps 60 s and continues
EmbedGetKey(t) ==
  /\ op[t] = "embed"
  /\ LET r == get_key(keys, last_used_key_index)
     IN /\ GetKeyBody(t, r)
        /\ IF r.ok
           THEN /\ api_key' = [api_key EXCEPT ![t] = r.key]
                /\ pc' = [pc EXCEPT ![t] = "provider"]
                /\ UNCHANGED <<sleep_left, iter>>
           ELSE /\ pc' = [pc EXCEPT ![t] = "sleep"]
                /\ sleep_left' = [sleep_left EXCEPT ![t] = SleepAfter("no_key")]
                /\ iter' = [iter EXCEPT ![t] = [@ EXCEPT !.fail = "no_key", !.key = UnknownKey,
                                                          !.disabled = FALSE, !.slept = 0,
                                                          !.fails = @ + 1]]
                /\ UNCHANGED api_key
  /\ UNCHANGED <<op, text, attempts, ret>>
  /\ UNCHANGED qaVars

\* generate_single_embedding returns Ok(embedding)
ProviderOk(t) ==
  /\ pc[t] = "provider"
  /\ EmbedReturn(t, "ok", VecOf(text[t]))
  /\ iter' = [iter EXCEPT ![t] = [@ EXCEPT !.fail = "none", !.key = api_key[t],
                                            !.disabled = FALSE, !.slept = 0]]
  /\ last_call' = NoCall
  /\ UNCHANGED <<tod, keys, last_used_key_index, keys_lock, text, sleep_left, granted, rr_run>>
  /\ UNCHANGED qaVars

\* generate_single_embedding returns Err(e)
ProviderErr(t, e) ==
  /\ pc[t] = "provider"
  /\ LET branch == IF is_rate_limited(e) THEN "rate_limited" ELSE "other"
     IN /\ pc' = [pc EXCEPT ![t] = IF DisablesKey(branch) THEN "disable_key"
                                   ELSE IF SleepAfter(branch) > 0 THEN "sleep" ELSE "loop"]
        /\ sleep_left' = [sleep_left EXCEPT ![t] = IF DisablesKey(branch) THEN 0 ELSE SleepAfter(branch)]
  /\ iter' = [iter EXCEPT ![t] = [@ EXCEPT !.fail = IF e.has429 \/ e.hasExhausted
                                                     THEN "rate_limited" ELSE "other",
                                            !.key = api_key[t], !.disabled = FALSE,
                                            !.slept = 0, !.fails = @ + 1]]
  /\ last_call' = NoCall
  /\ UNCHANGED <<tod, keys, last_used_key_index, keys_lock, op, api_key, text, attempts, ret, granted, rr_run>>
  /\ UNCHANGED qaVars

\* the rate-limit branch calls disable_key, which takes the lock
EmbedDisableLock(t) ==
  /\ pc[t] = "disable_key"
  /\ op[t] = "embed"
  /\ KeysLock(t)
  /\ api_key' = [api_key EXCEPT ![t] = KeyToDisable(@)]
  /\ pc' = [pc EXCEPT ![t] = "disable_key_locked"]
  /\ UNCHANGED <<tod, keys, last_used_key_index, op, text, attempts, sleep_left, ret, iter, granted, rr_run>>
  /\ UNCHANGED qaVars

\* disable_key returns to the loop, which sleeps or continues at once
EmbedDisableKey(t) ==
  /\ op[t] = "embed"
  /\ DisableKeyBody(t)
  /\ pc' = [pc EXCEPT ![t] = IF SleepAfter("rate_limited") > 0 THEN "sleep" ELSE "loop"]
  /\ sleep_left' = [sleep_left EXCEPT ![t] = SleepAfter("rate_limited")]
  /\ iter' = [iter EXCEPT ![t].disabled = TRUE]
  /\ UNCHANGED <<op, api_key, text, attempts, ret>>
  /\ UNCHANGED qaVars

(* ------------------------------ QAService ------------------------------ *)
\* the processes that call the service: the handler tasks and the load task
Loader == NumTasks + 1

Procs == Tasks \cup {Loader}

Answers == {"a1", "a2"}

\* QAItem: the question's text and the answer's text
Items == [question : Texts, answer : Answers]

ItemLists == UNION {[1..n -> Items] : n \in 0..MaxItems}

\* the SHA-256 of the question's text as a hexadecimal string: one hash a text
get_question_hash(txt) == <<"sha256", txt>>

Hashes == {get_question_hash(txt) : txt \in Texts}

\* the cache files the program writes: the provider's vector under the
\* hash of each question it has embedded
CacheFiles == UNION {[D -> {VecOf(txt) : txt \in Texts}] : D \in SUBSET Hashes}

WrittenCacheFiles == {c \in CacheFiles : \A h \in DOMAIN c : c[h] = VecOf(h[2])}

\* what generate_embedding_with_retry returns to the service: the vector of
\* the text, or the error after MAX_ATTEMPTS failed iterations
EmbedResults(txt) ==
  {[kind |-> "ok", vec |-> VecOf(txt)], [kind |-> "err", vec |-> <<>>]}

NoItem == [question |-> "", answer |-> ""]

\* a call in progress: hash is the hash update_qa was called with and index
\* the position it matched
NoSvcCall == [op |-> "none", item |-> NoItem, hash |-> <<>>, index |-> 0, seen |-> None]

\* history: the lists and the QA JSON file as a call finds them when it
\* gets the mutex
Seen == Some([qa_data |-> qa_data, question_embeddings |-> question_embeddings,
              qa_json |-> qa_json])

\* the latest return of the service: val is the value the caller gets; the
\* other fields are history of the call (op, hash: the operation and the
\* hash it was called with; index: the position it matched, 0 for none;
\* load: for a load that got to its loop, the cache as it was read and the
\* texts it had embedded, in their order)
NoSvcRet == [proc |-> 0, val |-> "none", query |-> "", item |-> None, embedded |-> FALSE,
             op |-> "none", hash |-> <<>>, index |-> 0, load |-> None]

SvcRet(p, r) == [NoSvcRet EXCEPT !.proc = p, !.val = r]

\* find_matching_qa returned Ok(item) for the text query: item is None or
\* Some(QAItem); embedded tells whether the text was embedded on the way
FindRet(p, txt, item, embedded) ==
  [NoSvcRet EXCEPT !.proc = p, !.val = "found", !.query = txt, !.item = item,
                   !.embedded = embedded]

\* delete_qa or update_qa, called with hash, returned r, which is Ok(())
\* whether or not a position was matched
MatchRet(p, r, o, hash, index) ==
  [SvcRet(p, r) EXCEPT !.op = o, !.hash = hash, !.index = index]

\* add_qa or update_qa returned after generate_embedding_with_retry had
\* given it the vector
EmbeddedRet(rec) == [rec EXCEPT !.embedded = TRUE]

System == [qa_data |-> qa_data, question_embeddings |-> question_embeddings]

\* (mutant) `.position(..).unwrap_or(0)`: the first item when none matches
position_OrFirst(data, hash) ==
  LET hits == {i \in 1..Len(data) : get_question_hash(data[i].question) = hash}
  IN IF hits = {} THEN (IF data = <<>> THEN None ELSE Some(1))
     ELSE Some(CHOOSE i \in hits : \A j \in hits : i <= j)

\* (mutant) the last position of the hash
position_Last(data, hash) ==
  LET hits == {i \in 1..Len(data) : get_question_hash(data[i].question) = hash}
  IN IF hits = {} THEN None ELSE Some(CHOOSE i \in hits : \A j \in hits : i >= j)

\* `qa_data.iter().position(|item| get_question_hash(..) == hash)`, counted from 1
position(data, hash) ==
  LET hits == {i \in 1..Len(data) : get_question_hash(data[i].question) = hash}
  IN IF hits = {} THEN None ELSE Some(CHOOSE i \in hits : \A j \in hits : i <= j)

\* Vec::remove(index), index counted from 1 and within the vector
RemoveAt(s, i) == SubSeq(s, 1, i - 1) \o SubSeq(s, i + 1, Len(s))

PushBoth_OnlyData(sys, item, vec) ==
  [qa_data |-> Append(sys.qa_data, item), question_embeddings |-> sys.question_embeddings]

\* add_qa: push the item and its vector
PushBoth(sys, item, vec) ==
  [qa_data |-> Append(sys.qa_data, item),
   question_embeddings |-> Append(sys.question_embeddings, vec)]

\* delete_qa: remove the item, then the vector at the same index; Vec::remove
\* panics when the index is not within question_embeddings
RemoveBoth(sys, i) ==
  IF i <= Len(sys.question_embeddings)
  THEN [qa_data |-> RemoveAt(sys.qa_data, i),
        question_embeddings |-> RemoveAt(sys.question_embeddings, i), panicked |-> FALSE]
  ELSE [qa_data |-> RemoveAt(sys.qa_data, i),
        question_embeddings |-> sys.question_embeddings, panicked |-> TRUE]

\* (mutant) the vector of the old question is kept
AssignBoth_KeepVector(sys, i, item, vec) ==
  [qa_data |-> [sys.qa_data EXCEPT ![i] = item],
   question_embeddings |-> sys.question_embeddings, panicked |-> FALSE]

\* update_qa: assign the item, then the vector at the same index; the
\* indexed assignment panics when the index is not within question_embeddings
AssignBoth(sys, i, item, vec) ==
  IF i <= Len(sys.question_embeddings)
  THEN [qa_data |-> [sys.qa_data EXCEPT ![i] = item],
        question_embeddings |-> [sys.question_embeddings EXCEPT ![i] = vec], panicked |-> FALSE]
  ELSE [qa_data |-> [sys.qa_data EXCEPT ![i] = item],
        question_embeddings |-> sys.question_embeddings, panicked |-> TRUE]

\* (mutant) the list is handed to the writer before it is changed
ListToSave_Stale(before, after) == before

\* `&self.system.qa_data` handed to save_all_qa_items after the change in
\* memory
ListToSave(before, after) == after

\* (mutant) the new vector is not put into the map
CachePut_Drop(cache, hash, vec) == cache

\* HashMap::insert(hash, vec)
CachePut(cache, hash, vec) ==
  [h \in DOMAIN cache \cup {hash} |-> IF h = hash THEN vec ELSE cache[h]]

\* persistence::save_all_qa_items: rewrite the QA JSON file with the whole
\* list, or fail and leave the file as it was
save_all_qa_items(file, data, written) == IF written THEN data ELSE file

\* (mutant) the cache file is rewritten with the new vector alone
add_embedding_to_cache_Alone(file, txt, vec, written) ==
  IF written THEN CachePut(<<>>, get_question_hash(txt), vec) ELSE file

\* persistence::add_embedding_to_cache: put the vector under the hash of the
\* text into the cache file, or fail and leave the file as it was
add_embedding_to_cache(file, txt, vec, written) ==
  IF written THEN CachePut(file, get_question_hash(txt), vec) ELSE file

\* str::starts_with on hashes: a hash is the sequence of its parts, the first
\* standing for leading digits that the hashes of different texts can have
\* in common, the second for the digits that tell them apart
starts_with(full, short) ==
  Len(short) <= Len(full) /\ SubSeq(full, 1, Len(short)) = short

\* the strings find_by_short_hash is called with: the beginnings of hashes,
\* the empty string and the whole hash included
ShortHashes == UNION {{SubSeq(h, 1, n) : n \in 0..Len(h)} : h \in Hashes}

\* (mutant) the last entry whose hash starts with the string
find_by_short_hash_Last(data, short_hash) ==
  LET hits == {i \in 1..Len(data) :
                 starts_with(get_question_hash(data[i].question), short_hash)}
      last == CHOOSE i \in hits : \A j \in hits : i >= j
  IN IF hits = {} THEN None
     ELSE Some([item |-> data[last], full_hash |-> get_question_hash(data[last].question)])

\* find_by_short_hash: `qa_data.iter().find_map(..)`, the item and its full
\* hash for the first item whose hash starts with the string
find_by_short_hash(data, short_hash) ==
  LET hits == {i \in 1..Len(data) :
                 starts_with(get_question_hash(data[i].question), short_hash)}
      first == CHOOSE i \in hits : \A j \in hits : i <= j
  IN IF hits = {} THEN None
     ELSE Some([item |-> data[first], full_hash |-> get_question_hash(data[first].question)])

(* search.rs: similarities are fractions <<numerator, denominator>> with a
   positive denominator; the vectors of the model have whole norms, so the
   f64 arithmetic of the code is exact on them *)
RECURSIVE DotFrom(_, _, _)
DotFrom(a, b, i) ==
  IF i > Len(a) \/ i > Len(b) THEN 0 ELSE a[i] * b[i] + DotFrom(a, b, i + 1)

\* `a.iter().zip(b.iter()).map(|(x, y)| x * y).sum()`
dot_product(a, b) == DotFrom(a, b, 1)

\* `a.iter().map(|x| x * x).sum::<f64>().sqrt()`
norm(a) == CHOOSE k \in 0..dot_product(a, a) : k * k = dot_product(a, a)

\* (mutant) no test for a zero norm: the division 0.0 / 0.0
cosine_similarity_NoZeroCheck(a, b) == <<dot_product(a, b), norm(a) * norm(b)>>

\* cosine_similarity: the f64 it returns as the pair <<numerator, denominator>>;
\* the early return gives 0.0, written <<0, 1>>
cosine_similarity(a, b) ==
  IF norm(a) = 0 \/ norm(b) = 0 THEN <<0, 1>>
  ELSE <<dot_product(a, b), norm(a) * norm(b)>>

\* f64::partial_cmp on two similarities
partial_cmp(x, y) ==
  IF x[1] * y[2] < y[1] * x[2] THEN "Less"
  ELSE IF x[1] * y[2] > y[1] * x[2] THEN "Greater" ELSE "Equal"

\* Iterator::max_by: the fold keeps the element it holds only when it
\* compares Greater than the next one
RECURSIVE max_by(_, _, _)
max_by(sims, best, i) ==
  IF i > Len(sims) THEN best
  ELSE max_by(sims, IF partial_cmp(sims[best], sims[i]) = "Greater" THEN best ELSE i, i + 1)

\* find_best_match: the index, counted from 1, and the similarity of the
\* best match, or None for no vectors
find_best_match(query_embedding, embeddings) ==
  IF embeddings = <<>> THEN None
  ELSE LET sims == [i \in 1..Len(embeddings) |-> cosine_similarity(query_embedding, embeddings[i])]
           index == max_by(sims, 1, 2)
       IN Some([index |-> index, similarity |-> sims[index]])

\* config.similarity.threshold
threshold == <<1, 2>>

\* (mutant) a match exactly at the threshold is turned down
MeetsThreshold_Strict(similarity) == partial_cmp(similarity, threshold) = "Greater"

\* `similarity >= threshold as f64`
MeetsThreshold(similarity) == partial_cmp(similarity, threshold) # "Less"

\* the slices cosine_similarity is checked on: up to MaxDim integral
\* components with a whole norm, so that sqrt is exact; the empty slice and
\* the zero vectors are among them
MaxDim == 3

Component == -2..2

HasWholeNorm(v) == \E k \in 0..dot_product(v, v) : k * k = dot_product(v, v)

SimVectors == {v \in UNION {[1..n -> Component] : n \in 0..MaxDim} : HasWholeNorm(v)}

NoSimCall == [a |-> <<>>, b |-> <<>>, ret |-> <<0, 1>>, called |-> FALSE]

\* the call cosine_similarity(a, b) returns
CosineSimilarity ==
  /\ ~sim_call.called
  /\ sim_call' = [sim_call EXCEPT !.ret = cosine_similarity(sim_call.a, sim_call.b),
                                  !.called = TRUE]
  /\ UNCHANGED <<tod, keys, last_used_key_index, keys_lock, pc, op, api_key,
                 text, attempts, sleep_left, ret, iter, granted, rr_run, last_call,
                 qa_data, question_embeddings, qa_lock, is_qa_ready, qa_json, cache_file,
                 svc_pc, svc_call, svc_ret, final_embeddings, embeddings_cache,
                 cache_was_updated, json_local, mgmt_added, cache_disk, cache_op, list_disk, list_op, state_lock, pending_qas, handler, sent, restarted_from>>

\* (mutant) no mutex: a caller never waits
ServiceFree_NoMutex == TRUE

\* `qa_service.lock().await` returns when no other guard of the mutex lives
ServiceFree == qa_lock = 0

\* a service call of process p returns r: the guard of the mutex is dropped
Returns(p, rec) ==
  /\ svc_pc' = [svc_pc EXCEPT ![p] = IF p = Loader THEN "done" ELSE "idle"]
  /\ svc_call' = [svc_call EXCEPT ![p] = NoSvcCall]
  /\ svc_ret' = rec
  /\ qa_lock' = 0

SvcReturn(p, r) == Returns(p, SvcRet(p, r))

\* the state of the service's callers outside the service
UnchangedOutside ==
  UNCHANGED <<tod, keys, last_used_key_index, keys_lock, pc, op, api_key,
              text, attempts, sleep_left, ret, iter, granted, rr_run, last_call,
              json_local, mgmt_added, cache_disk, cache_op, sim_call, list_disk, list_op, state_lock, pending_qas, handler, sent, restarted_from>>

UnchangedLoad == UNCHANGED <<is_qa_ready, final_embeddings, embeddings_cache, cache_was_updated>>

\* the handler of Confirm locks the service and calls add_qa(question, answer),
\* which starts the embedding of the question
CallAddQa(t, q, a) ==
  /\ svc_pc[t] = "idle"
  /\ ServiceFree
  /\ Len(qa_data) < MaxItems
  /\ qa_lock' = t
  /\ svc_pc' = [svc_pc EXCEPT ![t] = "embed"]
  /\ svc_call' = [svc_call EXCEPT ![t] = [op |-> "add_qa", item |-> [question |-> q, answer |-> a],
                                          hash |-> <<>>, index |-> 0, seen |-> Seen]]
  /\ svc_ret' = NoSvcRet
  /\ UNCHANGED <<qa_data, question_embeddings, qa_json, cache_file>>
  /\ UnchangedLoad
  /\ UnchangedOutside

\* (mutant) add_qa that pushes the item before it awaits the embedding
AddQaEmbedded_PushFirst(t, r, saved, cached) ==
  /\ svc_pc[t] = "embed"
  /\ svc_call[t].op = "add_qa"
  /\ qa_lock = t
  /\ LET item == svc_call[t].item
         sys == PushBoth(System, item, r.vec)
     IN IF r.kind = "err"
        THEN /\ Returns(t, MatchRet(t, "err", "add_qa", <<>>, 0))
             /\ qa_data' = Append(qa_data, item)
             /\ UNCHANGED <<question_embeddings, qa_json, cache_file>>
        ELSE /\ qa_data' = sys.qa_data
             /\ question_embeddings' = sys.question_embeddings
             /\ qa_json' = save_all_qa_items(qa_json, ListToSave(qa_data, sys.qa_data), saved)
             /\ cache_file' = IF saved
                              THEN add_embedding_to_cache(cache_file, item.question, r.vec, cached)
                              ELSE cache_file
             /\ Returns(t, EmbeddedRet(MatchRet(t, IF saved /\ cached THEN "ok" ELSE "err",
                                                "add_qa", <<>>, 0)))
  /\ UnchangedLoad
  /\ UnchangedOutside

\* add_qa from the return of the embedding to its own return
AddQaEmbedded(t, r, saved, cached) ==
  /\ svc_pc[t] = "embed"
  /\ svc_call[t].op = "add_qa"
  /\ qa_lock = t
  /\ LET item == svc_call[t].item
         sys == PushBoth(System, item, r.vec)
     IN IF r.kind = "err"
        THEN /\ Returns(t, MatchRet(t, "err", "add_qa", <<>>, 0))
             /\ UNCHANGED <<qa_data, question_embeddings, qa_json, cache_file>>
        ELSE /\ qa_data' = sys.qa_data
             /\ question_embeddings' = sys.question_embeddings
             /\ qa_json' = save_all_qa_items(qa_json, ListToSave(qa_data, sys.qa_data), saved)
             /\ cache_file' = IF saved
                              THEN add_embedding_to_cache(cache_file, item.question, r.vec, cached)
                              ELSE cache_file
             /\ Returns(t, EmbeddedRet(MatchRet(t, IF saved /\ cached THEN "ok" ELSE "err",
                                                "add_qa", <<>>, 0)))
  /\ UnchangedLoad
  /\ UnchangedOutside

\* the handler of DeleteConfirm locks the service and calls delete_qa(hash),
\* which has no await: the call is one step under the lock
DeleteQa(t, hash, saved) ==
  /\ svc_pc[t] = "idle"
  /\ ServiceFree
  /\ LET found == position(qa_data, hash)
         sys == RemoveBoth(System, found[1])
     IN IF found = None
        THEN /\ svc_ret' = MatchRet(t, "ok", "delete_qa", hash, 0)
             /\ UNCHANGED <<qa_data, question_embeddings, qa_json>>
        ELSE /\ qa_data' = sys.qa_data
             /\ question_embeddings' = sys.question_embeddings
             /\ qa_json' = IF sys.panicked THEN qa_json
                           ELSE save_all_qa_items(qa_json, ListToSave(qa_data, sys.qa_data), saved)
             /\ svc_ret' = MatchRet(t, IF sys.panicked THEN "panic"
                                           ELSE IF saved THEN "ok" ELSE "err",
                                     "delete_qa", hash, found[1])
  /\ UNCHANGED <<qa_lock, cache_file, svc_pc, svc_call>>
  /\ UnchangedLoad
  /\ UnchangedOutside

\* the handler of an edit locks the service and calls update_qa(hash, question,
\* answer), which looks the hash up and starts the embedding of the question
CallUpdateQa(t, hash, q, a) ==
  /\ svc_pc[t] = "idle"
  /\ ServiceFree
  /\ LET found == position(qa_data, hash)
     IN IF found = None
        THEN /\ svc_ret' = MatchRet(t, "ok", "update_qa", hash, 0)
             /\ UNCHANGED <<qa_lock, svc_pc, svc_call>>
        ELSE /\ qa_lock' = t
             /\ svc_pc' = [svc_pc EXCEPT ![t] = "embed"]
             /\ svc_call' = [svc_call EXCEPT ![t] = [op |-> "update_qa",
                                                     item |-> [question |-> q, answer |-> a],
                                                     hash |-> hash, index |-> found[1],
                                                     seen |-> Seen]]
             /\ svc_ret' = NoSvcRet
  /\ UNCHANGED <<qa_data, question_embeddings, qa_json, cache_file>>
  /\ UnchangedLoad
  /\ UnchangedOutside

\* update_qa from the return of the embedding to its own return
UpdateQaEmbedded(t, r, saved, cached) ==
  /\ svc_pc[t] = "embed"
  /\ svc_call[t].op = "update_qa"
  /\ qa_lock = t
  /\ LET item == svc_call[t].item
         sys == AssignBoth(System, svc_call[t].index, item, r.vec)
         Ret(val) == MatchRet(t, val, "update_qa", svc_call[t].hash, svc_call[t].index)
     IN IF r.kind = "err"
        THEN /\ Returns(t, Ret("err"))
             /\ UNCHANGED <<qa_data, question_embeddings, qa_json, cache_file>>
        ELSE /\ qa_data' = sys.qa_data
             /\ question_embeddings' = sys.question_embeddings
             /\ qa_json' = IF sys.panicked THEN qa_json
                           ELSE save_all_qa_items(qa_json, ListToSave(qa_data, sys.qa_data), saved)
             /\ cache_file' = IF ~sys.panicked /\ saved
                              THEN add_embedding_to_cache(cache_file, item.question, r.vec, cached)
                              ELSE cache_file
             /\ Returns(t, EmbeddedRet(Ret(IF sys.panicked THEN "panic"
                                           ELSE IF saved /\ cached THEN "ok" ELSE "err")))
  /\ UnchangedLoad
  /\ UnchangedOutside

\* a handler that saw is_qa_ready locks the service and calls
\* find_matching_qa(text), which returns Ok(None) for no vectors and else
\* starts the embedding of the text
CallFind(t, txt) ==
  /\ svc_pc[t] = "idle"
  /\ is_qa_ready
  /\ ServiceFree
  /\ IF question_embeddings = <<>>
     THEN /\ svc_ret' = FindRet(t, txt, None, FALSE)
          /\ UNCHANGED <<qa_lock, svc_pc, svc_call>>
     ELSE /\ qa_lock' = t
          /\ svc_pc' = [svc_pc EXCEPT ![t] = "embed"]
          /\ svc_call' = [svc_call EXCEPT ![t] = [op |-> "find_matching_qa",
                                                  item |-> [question |-> txt, answer |-> ""],
                                                  hash |-> <<>>, index |-> 0, seen |-> Seen]]
          /\ svc_ret' = NoSvcRet
  /\ UNCHANGED <<qa_data, question_embeddings, qa_json, cache_file>>
  /\ UnchangedLoad
  /\ UnchangedOutside

\* find_matching_qa from the return of the embedding to its own return:
\* both arms of the threshold test read qa_data[index], which panics when
\* the index is not within qa_data
FindEmbedded(t, r) ==
  /\ svc_pc[t] = "embed"
  /\ svc_call[t].op = "find_matching_qa"
  /\ qa_lock = t
  /\ LET found == find_best_match(r.vec, question_embeddings)
     IN IF r.kind = "err" THEN SvcReturn(t, "err")
        ELSE IF found[1].index > Len(qa_data) THEN SvcReturn(t, "panic")
        ELSE /\ svc_pc' = [svc_pc EXCEPT ![t] = "idle"]
             /\ svc_call' = [svc_call EXCEPT ![t] = NoSvcCall]
             /\ qa_lock' = 0
             /\ svc_ret' = FindRet(t, svc_call[t].item.question,
                                   IF MeetsThreshold(found[1].similarity)
                                   THEN Some(qa_data[found[1].index]) ELSE None,
                                   TRUE)
  /\ UNCHANGED <<qa_data, question_embeddings, qa_json, cache_file>>
  /\ UnchangedLoad
  /\ UnchangedOutside

\* the handler of ViewQa locks the service and calls find_by_short_hash,
\* which has no await: the call is one step under the lock
FindByShortHash(t, short_hash) ==
  /\ svc_pc[t] = "idle"
  /\ ServiceFree
  /\ svc_ret' = [NoSvcRet EXCEPT !.proc = t, !.val = "short", !.op = "find_by_short_hash",
                                 !.hash = short_hash,
                                 !.item = find_by_short_hash(qa_data, short_hash)]
  /\ UNCHANGED <<qa_data, question_embeddings, qa_json, cache_file, qa_lock, svc_pc, svc_call>>
  /\ UnchangedLoad
  /\ UnchangedOutside

\* the load task ends: its locals are dropped
LoadReturn(r) ==
  /\ Returns(Loader, [SvcRet(Loader, r) EXCEPT
                        !.load = svc_call[Loader].seen])
  /\ final_embeddings' = <<>>
  /\ embeddings_cache' = <<>>
  /\ cache_was_updated' = FALSE

\* the load task locks the service and calls load_and_embed_all, which reads
\* the QA JSON file into qa_data, reads the cache file (an unparsable one
\* counts as empty) and needs at least one API key
LoadCall(readable, parsed) ==
  /\ svc_pc[Loader] = "idle"
  /\ ServiceFree
  /\ IF ~readable
     THEN /\ svc_pc' = [svc_pc EXCEPT ![Loader] = "done"]
          /\ svc_ret' = SvcRet(Loader, "err")
          /\ UNCHANGED <<qa_data, qa_lock, svc_call, final_embeddings,
                         embeddings_cache, cache_was_updated>>
     ELSE /\ qa_data' = qa_json
          /\ IF Len(api_keys) = 0
             THEN /\ svc_pc' = [svc_pc EXCEPT ![Loader] = "done"]
                  /\ svc_ret' = SvcRet(Loader, "err")
                  /\ UNCHANGED <<qa_lock, svc_call, final_embeddings,
                                 embeddings_cache, cache_was_updated>>
             ELSE /\ qa_lock' = Loader
                  /\ svc_pc' = [svc_pc EXCEPT ![Loader] = "load_items"]
                  /\ svc_call' = [svc_call EXCEPT ![Loader] =
                       [NoSvcCall EXCEPT !.op = "load_and_embed_all",
                                         !.seen = Some([cache |-> IF parsed THEN cache_file ELSE <<>>,
                                                        calls |-> <<>>])]]
                  /\ svc_ret' = NoSvcRet
                  /\ embeddings_cache' = IF parsed THEN cache_file ELSE <<>>
                  /\ UNCHANGED <<final_embeddings, cache_was_updated>>
  /\ UNCHANGED <<question_embeddings, is_qa_ready, qa_json, cache_file>>
  /\ UnchangedOutside

\* (mutant) the cache file is written after every vector that is generated
LoadItem_SaveEach(kind) ==
  /\ svc_pc[Loader] = "load_items"
  /\ qa_lock = Loader
  /\ Len(final_embeddings) < Len(qa_data)
  /\ LET qa_item == qa_data[Len(final_embeddings) + 1]
         question_hash == get_question_hash(qa_item.question)
         r == CHOOSE x \in EmbedResults(qa_item.question) : x.kind = kind
     IN IF question_hash \in DOMAIN embeddings_cache
        THEN /\ final_embeddings' = Append(final_embeddings, embeddings_cache[question_hash])
             /\ UNCHANGED <<qa_lock, svc_pc, svc_call, svc_ret, embeddings_cache, cache_was_updated>>
        ELSE IF r.kind = "err"
        THEN LoadReturn("err")
        ELSE /\ final_embeddings' = Append(final_embeddings, r.vec)
             /\ embeddings_cache' = CachePut(embeddings_cache, question_hash, r.vec)
             /\ cache_was_updated' = TRUE
             /\ svc_call' = [svc_call EXCEPT ![Loader].seen =
                               Some([@[1] EXCEPT !.calls = Append(@, qa_item.question)])]
             /\ UNCHANGED <<qa_lock, svc_pc, svc_ret>>
  /\ cache_file' = IF svc_pc'[Loader] = "load_items" /\ embeddings_cache' # embeddings_cache
                   THEN embeddings_cache' ELSE cache_file
  /\ UNCHANGED <<qa_data, question_embeddings, is_qa_ready, qa_json>>
  /\ UnchangedOutside

\* one turn of the loop over qa_data: the cached vector of the question, or
\* a new one from generate_embedding_with_retry, whose error ends the load
LoadItem(kind) ==
  /\ svc_pc[Loader] = "load_items"
  /\ qa_lock = Loader
  /\ Len(final_embeddings) < Len(qa_data)
  /\ LET qa_item == qa_data[Len(final_embeddings) + 1]
         question_hash == get_question_hash(qa_item.question)
         r == CHOOSE x \in EmbedResults(qa_item.question) : x.kind = kind
     IN IF question_hash \in DOMAIN embeddings_cache
        THEN /\ final_embeddings' = Append(final_embeddings, embeddings_cache[question_hash])
             /\ UNCHANGED <<qa_lock, svc_pc, svc_call, svc_ret, embeddings_cache, cache_was_updated>>
        ELSE IF r.kind = "err"
        THEN LoadReturn("err")
        ELSE /\ final_embeddings' = Append(final_embeddings, r.vec)
             /\ embeddings_cache' = CachePut(embeddings_cache, question_hash, r.vec)
             /\ cache_was_updated' = TRUE
             /\ svc_call' = [svc_call EXCEPT ![Loader].seen =
                               Some([@[1] EXCEPT !.calls = Append(@, qa_item.question)])]
             /\ UNCHANGED <<qa_lock, svc_pc, svc_ret>>
  /\ UNCHANGED <<qa_data, question_embeddings, is_qa_ready, qa_json, cache_file>>
  /\ UnchangedOutside

\* (mutant) the cache file is written with the new vectors only
CacheToSave_OnlyNew(cache, calls) ==
  [h \in {get_question_hash(calls[k]) : k \in 1..Len(calls)} |-> cache[h]]

\* `&embeddings_cache` handed to save_embeddings_cache: the whole map
CacheToSave(cache, calls) == cache

\* after the loop: save the cache if it grew, assign question_embeddings and
\* return Ok, on which the load task sets is_qa_ready
LoadFinish(saved) ==
  /\ svc_pc[Loader] = "load_items"
  /\ qa_lock = Loader
  /\ Len(final_embeddings) = Len(qa_data)
  /\ IF cache_was_updated /\ ~saved
     THEN /\ LoadReturn("err")
          /\ UNCHANGED <<question_embeddings, is_qa_ready, cache_file>>
     ELSE /\ cache_file' = IF cache_was_updated
                              THEN CacheToSave(embeddings_cache, svc_call[Loader].seen[1].calls)
                              ELSE cache_file
          /\ question_embeddings' = final_embeddings
          /\ is_qa_ready' = TRUE
          /\ LoadReturn("ok")
  /\ UNCHANGED <<qa_data, qa_json>>
  /\ UnchangedOutside

(* ------------------------- management::add_qa -------------------------- *)
\* the state the management module does not touch
UnchangedByMgmt ==
  UNCHANGED <<tod, keys, last_used_key_index, keys_lock, pc, op, api_key,
              text, attempts, sleep_left, ret, iter, granted, rr_run, last_call,
              is_qa_ready, cache_file, final_embeddings, embeddings_cache, cache_was_updated,
              cache_disk, cache_op, sim_call, list_disk, list_op, state_lock, pending_qas, handler, sent, restarted_from>>

\* management::add_qa calls add_qa_item_to_json, which reads the QA JSON file
\* into its local list; the mutex is not taken yet
MgmtAddRead(t, q, a, readable) ==
  /\ svc_pc[t] = "idle"
  /\ Len(qa_json) < MaxItems
  /\ IF readable
     THEN /\ json_local' = [json_local EXCEPT ![t] = qa_json]
          /\ svc_pc' = [svc_pc EXCEPT ![t] = "json_read"]
          /\ svc_call' = [svc_call EXCEPT ![t] = [NoSvcCall EXCEPT !.op = "management::add_qa",
                                                  !.item = [question |-> q, answer |-> a]]]
          /\ svc_ret' = NoSvcRet
     ELSE /\ svc_ret' = SvcRet(t, "err")
          /\ UNCHANGED <<json_local, svc_pc, svc_call>>
  /\ UNCHANGED <<qa_data, question_embeddings, qa_lock, qa_json, mgmt_added>>
  /\ UnchangedByMgmt

\* add_qa_item_to_json pushes the item to its local list and writes the
\* list to the file; a failed write returns the error
MgmtAddWrite(t, written) ==
  /\ svc_pc[t] = "json_read"
  /\ json_local' = [json_local EXCEPT ![t] = <<>>]
  /\ IF written
     THEN /\ qa_json' = Append(json_local[t], svc_call[t].item)
          /\ mgmt_added' = mgmt_added \cup {svc_call[t].item}
          /\ svc_pc' = [svc_pc EXCEPT ![t] = "reload"]
          /\ UNCHANGED <<svc_call, svc_ret>>
     ELSE /\ svc_pc' = [svc_pc EXCEPT ![t] = "idle"]
          /\ svc_call' = [svc_call EXCEPT ![t] = NoSvcCall]
          /\ svc_ret' = SvcRet(t, "err")
          /\ UNCHANGED <<qa_json, mgmt_added>>
  /\ UNCHANGED <<qa_data, question_embeddings, qa_lock>>
  /\ UnchangedByMgmt

\* management::add_qa takes the mutex and calls load_and_embed_qa, which
\* reads the file into qa_data and starts to embed
MgmtReloadCall(t, readable) ==
  /\ svc_pc[t] = "reload"
  /\ ServiceFree
  /\ IF readable
     THEN /\ qa_lock' = t
          /\ qa_data' = qa_json
          /\ svc_pc' = [svc_pc EXCEPT ![t] = "reloading"]
          /\ UNCHANGED <<svc_call, svc_ret>>
     ELSE /\ svc_pc' = [svc_pc EXCEPT ![t] = "idle"]
          /\ svc_call' = [svc_call EXCEPT ![t] = NoSvcCall]
          /\ svc_ret' = SvcRet(t, "err")
          /\ UNCHANGED <<qa_lock, qa_data>>
  /\ UNCHANGED <<question_embeddings, qa_json, json_local, mgmt_added>>
  /\ UnchangedByMgmt

\* load_and_embed_qa assigns question_embeddings when every question was
\* embedded, or returns the error of the embedding
MgmtReloaded(t, kind) ==
  /\ svc_pc[t] = "reloading"
  /\ qa_lock = t
  /\ question_embeddings' = IF kind = "ok"
                            THEN [i \in 1..Len(qa_data) |-> VecOf(qa_data[i].question)]
                            ELSE question_embeddings
  /\ SvcReturn(t, kind)
  /\ UNCHANGED <<qa_data, qa_json, json_local, mgmt_added>>
  /\ UnchangedByMgmt

(* ------------- save_embeddings_cache, load_embeddings_cache ------------- *)

\* the text of an f64 as serde_json writes it, for the components the
\* vectors of the model have
fmt_f64(x) == CASE x = 0 -> "0.0" [] x = 1 -> "1.0"

\* the f64 of a number text
parse_f64(str) == CASE str = "0.0" -> 0 [] str = "1.0" -> 1

NumberTexts == {"0.0", "1.0"}

\* the tokens of a JSON text: the opening brace, "key": [numbers], the
\* closing brace
Token(t, key, value) == [t |-> t, key |-> key, value |-> value]

\* the orders in which a HashMap with the keys D can be iterated
Orders(D) ==
  {o \in [1..Cardinality(D) -> D] : \A i, j \in 1..Cardinality(D) : i # j => o[i] # o[j]}

\* (mutant) the closing brace is not written
to_string_pretty_NoClose(cache, order) ==
  <<Token("open", <<>>, <<>>)>>
  \o [i \in 1..Len(order) |->
        Token("entry", order[i],
              [j \in 1..Len(cache[order[i]]) |-> fmt_f64(cache[order[i]][j])])]

\* serde_json::to_string_pretty(cache): an object with one member for each
\* key, in the order of the map's iteration
to_string_pretty(cache, order) ==
  <<Token("open", <<>>, <<>>)>>
  \o [i \in 1..Len(order) |->
        Token("entry", order[i],
              [j \in 1..Len(cache[order[i]]) |-> fmt_f64(cache[order[i]][j])])]
  \o <<Token("close", <<>>, <<>>)>>

\* serde_json::from_reader into HashMap<String, Vec<f64>>: None for a text
\* that is no whole object of number arrays, else the map, in which the
\* last member with a key wins
from_reader(content) ==
  LET n == Len(content)
      wellFormed ==
        /\ n >= 2 /\ content[1].t = "open" /\ content[n].t = "close"
        /\ \A i \in 2..(n - 1) :
             /\ content[i].t = "entry"
             /\ \A j \in 1..Len(content[i].value) : content[i].value[j] \in NumberTexts
      members(key) == {i \in 2..(n - 1) : content[i].key = key}
      last(key) == CHOOSE i \in members(key) : \A k \in members(key) : i >= k
  IN IF ~wellFormed THEN None
     ELSE Some([key \in {content[i].key : i \in 2..(n - 1)} |->
                  [j \in 1..Len(content[last(key)].value) |->
                     parse_f64(content[last(key)].value[j])]])

MissingFile == [exists |-> FALSE, content |-> <<>>]

FileWith(content) == [exists |-> TRUE, content |-> content]

\* what an interrupted fs::write can leave: the file as it was, or the new
\* file with a beginning of the text, the empty one and the whole included
InterruptedWrites(disk, content) ==
  {disk} \cup {FileWith(SubSeq(content, 1, n)) : n \in 0..Len(content)}

\* (mutant) a text that cannot be parsed is an error of the load
load_embeddings_cache_Strict(disk, dir_ok, opened) ==
  IF ~dir_ok THEN [val |-> "err", map |-> <<>>]
  ELSE IF ~disk.exists THEN [val |-> "ok", map |-> <<>>]
  ELSE IF ~opened THEN [val |-> "err", map |-> <<>>]
  ELSE IF from_reader(disk.content) = None THEN [val |-> "err", map |-> <<>>]
  ELSE [val |-> "ok", map |-> from_reader(disk.content)[1]]

\* load_embeddings_cache: an error when create_dir_all or File::open fails,
\* the empty map for no file and for a file that cannot be parsed, else the
\* map of the file
load_embeddings_cache(disk, dir_ok, opened) ==
  IF ~dir_ok THEN [val |-> "err", map |-> <<>>]
  ELSE IF ~disk.exists THEN [val |-> "ok", map |-> <<>>]
  ELSE IF ~opened THEN [val |-> "err", map |-> <<>>]
  ELSE IF from_reader(disk.content) = None THEN [val |-> "ok", map |-> <<>>]
  ELSE [val |-> "ok", map |-> from_reader(disk.content)[1]]

\* history: the pairs a load would get from the file
Persisted(disk) == load_embeddings_cache(disk, TRUE, TRUE).map

\* a call: op and val are the function and what it returned (val is "crash"
\* for a process that died in it); map is the argument of a save and the
\* result of a load; the other fields are history: old, the pairs that were
\* persisted before the call, the outcomes of create_dir_all and
\* File::open, and op, val, map and old of the call before this one
NoCacheOp == [op |-> "none", val |-> "none", map |-> <<>>, old |-> <<>>,
              dir_ok |-> TRUE, opened |-> TRUE, prev |-> None]

CacheOp(o, val, map, dir_ok, opened) ==
  [op |-> o, val |-> val, map |-> map, old |-> Persisted(cache_disk),
   dir_ok |-> dir_ok, opened |-> opened,
   prev |-> Some([op |-> cache_op.op, val |-> cache_op.val, map |-> cache_op.map,
                  old |-> cache_op.old])]

NoCacheIO == cache_disk = MissingFile /\ cache_op = NoCacheOp

UnchangedByCacheIO ==
  UNCHANGED <<tod, keys, last_used_key_index, keys_lock, pc, op, api_key,
              text, attempts, sleep_left, ret, iter, granted, rr_run, last_call,
              qa_data, question_embeddings, qa_lock, is_qa_ready, qa_json, cache_file,
              svc_pc, svc_call, svc_ret, final_embeddings, embeddings_cache,
              cache_was_updated, json_local, mgmt_added,
              sim_call, list_disk, list_op, state_lock, pending_qas, handler, sent, restarted_from>>

\* save_embeddings_cache(cache_path, cache): the text of the map is written
\* with fs::write, whose error is returned
SaveCache(cache, order, written) ==
  /\ cache_disk' = IF written THEN FileWith(to_string_pretty(cache, order)) ELSE cache_disk
  /\ cache_op' = CacheOp("save_embeddings_cache", IF written THEN "ok" ELSE "err",
                         cache, TRUE, TRUE)
  /\ UnchangedByCacheIO

\* the process dies in the fs::write of save_embeddings_cache, which leaves
\* what an interrupted write can leave
SaveCacheCrash(cache, order, left) ==
  /\ left \in InterruptedWrites(cache_disk, to_string_pretty(cache, order))
  /\ cache_disk' = left
  /\ cache_op' = CacheOp("save_embeddings_cache", "crash", cache, TRUE, TRUE)
  /\ UnchangedByCacheIO

\* load_embeddings_cache(config)
LoadCache(dir_ok, opened) ==
  /\ LET r == load_embeddings_cache(cache_disk, dir_ok, opened)
     IN cache_op' = CacheOp("load_embeddings_cache", r.val, r.map, dir_ok, opened)
  /\ UNCHANGED cache_disk
  /\ UnchangedByCacheIO

(* ---- qa/mod.rs: the cache of the whole list, a cache file and a hash file ---- *)
\* calculate_qa_hash: the SHA-256 of the JSON text of the list, one hash a list
calculate_qa_hash(data) == <<"sha256", data>>

\* the most items of a list whose vectors are cached as a whole
MaxCached == 1

\* the lists load_and_embed_qa is run on
CachedLists == {data \in ItemLists : Len(data) <= MaxCached}

\* load_and_embed_qa: the vectors it generates for a list, in its order
EmbeddingsOf(data) == [i \in 1..Len(data) |-> VecOf(data[i].question)]

\* serde_json::to_string_pretty(embeddings): an array of number arrays
to_string_pretty_list(embeddings) ==
  <<Token("open", <<>>, <<>>)>>
  \o [i \in 1..Len(embeddings) |->
        Token("entry", <<>>, [j \in 1..Len(embeddings[i]) |-> fmt_f64(embeddings[i][j])])]
  \o <<Token("close", <<>>, <<>>)>>

\* serde_json::from_reader into Vec<Vec<f64>>: None for a text that is no
\* whole array of number arrays
from_reader_list(content) ==
  LET n == Len(content)
      wellFormed ==
        /\ n >= 2 /\ content[1].t = "open" /\ content[n].t = "close"
        /\ \A i \in 2..(n - 1) :
             /\ content[i].t = "entry"
             /\ \A j \in 1..Len(content[i].value) : content[i].value[j] \in NumberTexts
  IN IF ~wellFormed THEN None
     ELSE Some([i \in 1..(n - 2) |->
                  [j \in 1..Len(content[i + 1].value) |-> parse_f64(content[i + 1].value[j])]])

\* the text fs::write(&hash_file_path, qa_hash) writes: the hash, no newline
HashText(qa_hash) == <<Token("text", qa_hash, <<>>)>>

\* str::trim: the text without the white space at its two ends
trim(str) ==
  LET keep == {i \in 1..Len(str) : str[i].t # "space"}
  IN IF keep = {} THEN <<>>
     ELSE SubSeq(str, CHOOSE i \in keep : \A j \in keep : i <= j,
                      CHOOSE i \in keep : \A j \in keep : i >= j)

NoListDisk == [cache |-> MissingFile, hash |-> MissingFile]

\* where a save can fail: create_dir_all, the write of the cache file, the
\* write of the hash file
SaveFailures == {"none", "dir", "cache", "hash"}

\* save_embeddings_cache(cache_file_path, qa_hash, embeddings) of qa/mod.rs:
\* the cache file is written first, then the hash file; an error returns at once
save_embeddings_cache(disk, qa_hash, embeddings, failed) ==
  IF failed \in {"dir", "cache"} THEN [val |-> "err", disk |-> disk]
  ELSE LET written == [disk EXCEPT !.cache = FileWith(to_string_pretty_list(embeddings))]
       IN IF failed = "hash" THEN [val |-> "err", disk |-> written]
          ELSE [val |-> "ok", disk |-> [written EXCEPT !.hash = FileWith(HashText(qa_hash))]]

\* (mutant) the hash file is not compared with the expected hash
load_cached_embeddings_NoHashCheck(disk, expected_qa_hash, read_ok, opened) ==
  IF ~disk.cache.exists \/ ~disk.hash.exists THEN [val |-> "ok", embeddings |-> None]
  ELSE IF ~read_ok THEN [val |-> "err", embeddings |-> None]
  ELSE IF ~opened THEN [val |-> "err", embeddings |-> None]
  ELSE IF from_reader_list(disk.cache.content) = None THEN [val |-> "err", embeddings |-> None]
  ELSE [val |-> "ok", embeddings |-> from_reader_list(disk.cache.content)]

\* load_cached_embeddings(cache_file_path, expected_qa_hash): Ok(None) when a
\* file is missing or the hash file holds another hash, Err when a file
\* cannot be read or parsed, else Ok(Some(the list of the cache file))
load_cached_embeddings(disk, expected_qa_hash, read_ok, opened) ==
  IF ~disk.cache.exists \/ ~disk.hash.exists THEN [val |-> "ok", embeddings |-> None]
  ELSE IF ~read_ok THEN [val |-> "err", embeddings |-> None]
  ELSE IF trim(disk.hash.content) # HashText(expected_qa_hash)
       THEN [val |-> "ok", embeddings |-> None]
  ELSE IF ~opened THEN [val |-> "err", embeddings |-> None]
  ELSE IF from_reader_list(disk.cache.content) = None THEN [val |-> "err", embeddings |-> None]
  ELSE [val |-> "ok", embeddings |-> from_reader_list(disk.cache.content)]

\* a call: op and val are the function and its Ok or Err; hash and
\* embeddings are its arguments (of a load, the expected hash and the
\* Option it returned); the rest is history: whether the two files existed
\* and could be read at a load, and the latest save with its result
NoListOp == [op |-> "none", val |-> "none", hash |-> <<>>, embeddings |-> None,
             cache_exists |-> FALSE, hash_exists |-> FALSE, io_ok |-> TRUE,
             last_save |-> None]

NoListCache == list_disk = NoListDisk /\ list_op = NoListOp

UnchangedByListCache ==
  UNCHANGED <<tod, keys, last_used_key_index, keys_lock, pc, op, api_key,
              text, attempts, sleep_left, ret, iter, granted, rr_run, last_call,
              qa_data, question_embeddings, qa_lock, is_qa_ready, qa_json, cache_file,
              svc_pc, svc_call, svc_ret, final_embeddings, embeddings_cache,
              cache_was_updated, json_local, mgmt_added, cache_disk, cache_op, sim_call, state_lock, pending_qas, handler, sent, restarted_from>>

\* load_and_embed_qa saves the vectors it generated for the list under the
\* hash of the list
SaveListCache(data, failed) ==
  LET r == save_embeddings_cache(list_disk, calculate_qa_hash(data), EmbeddingsOf(data), failed)
  IN /\ list_disk' = r.disk
     /\ list_op' = [NoListOp EXCEPT !.op = "save_embeddings_cache", !.val = r.val,
                                    !.hash = calculate_qa_hash(data),
                                    !.embeddings = Some(EmbeddingsOf(data)),
                                    !.last_save = Some([hash |-> calculate_qa_hash(data),
                                                        embeddings |-> EmbeddingsOf(data),
                                                        val |-> r.val])]
     /\ UnchangedByListCache

\* load_and_embed_qa asks for the vectors cached for the hash of its list
LoadCachedEmbeddings(data, read_ok, opened) ==
  LET r == load_cached_embeddings(list_disk, calculate_qa_hash(data), read_ok, opened)
  IN /\ list_op' = [NoListOp EXCEPT !.op = "load_cached_embeddings", !.val = r.val,
                                    !.hash = calculate_qa_hash(data),
                                    !.embeddings = r.embeddings,
                                    !.cache_exists = list_disk.cache.exists,
                                    !.hash_exists = list_disk.hash.exists,
                                    !.io_ok = read_ok /\ opened,
                                    !.last_save = list_op.last_save]
     /\ UNCHANGED list_disk
     /\ UnchangedByListCache

\* somebody removes the cache file or the hash file
RemoveListFile(which) ==
  /\ list_disk[which].exists
  /\ list_disk' = [list_disk EXCEPT ![which] = MissingFile]
  /\ list_op' = [NoListOp EXCEPT !.op = "remove_file", !.last_save = list_op.last_save]
  /\ UnchangedByListCache

(* ------------- the bot handlers of the edit flow (bot/*.rs) ------------- *)
\* a handler that is not running: no position, no pending status cloned,
\* no text of a reply
NoHandler == [pc |-> "idle", status |-> None, text |-> ""]

NoSent == [text |-> "none", replaced |-> FALSE]

\* AppState::new behind its mutex, and no handler running
NewBot ==
  /\ state_lock = 0
  /\ pending_qas = [t \in Tasks |-> None]
  /\ handler = [t \in Tasks |-> NoHandler]
  /\ sent = [t \in Tasks |-> NoSent]

\* `state.lock().await` returns when no other guard of the mutex lives
StateFree == state_lock = 0

\* QAStatus::EditQuestion { old_question_hash, original_answer } and
\* QAStatus::EditAnswer { old_question_hash, original_question }
EditStatus(kind, full_hash, item) ==
  [kind |-> kind, old_question_hash |-> full_hash,
   original |-> IF kind = "EditQuestion" THEN item.answer ELSE item.question]

\* the arguments handle_qa_reply gives update_qa for a status and a reply
NewItem(status, txt) ==
  IF status.kind = "EditQuestion"
  THEN [question |-> txt, answer |-> status.original]
  ELSE [question |-> status.original, answer |-> txt]

\* the texts an admin replies with to a prompt of the kind
ReplyTexts(kind) == IF kind = "EditQuestion" THEN Texts ELSE Answers

UnchangedByBot ==
  UNCHANGED <<tod, keys, last_used_key_index, keys_lock, pc, op, api_key,
              text, attempts, sleep_left, ret, iter, granted, rr_run, last_call,
              is_qa_ready, svc_pc, svc_call, final_embeddings, embeddings_cache,
              cache_was_updated, json_local, mgmt_added, cache_disk, cache_op, sim_call,
              list_disk, list_op, restarted_from>>

\* callback_handler, EditQuestionPrompt / EditAnswerPrompt: service_guard is
\* taken and the item looked up; without an item the handler returns
EditPromptLock(t, kind, short_hash) ==
  /\ handler[t].pc = "idle"
  /\ svc_pc[t] = "idle"
  /\ ServiceFree
  /\ LET found == find_by_short_hash(qa_data, short_hash)
     IN IF found = None
        THEN UNCHANGED <<qa_lock, handler>>
        ELSE /\ qa_lock' = t
             /\ handler' = [handler EXCEPT ![t] =
                              [pc |-> "prompt_state",
                               status |-> Some(EditStatus(kind, found[1].full_hash, found[1].item)),
                               text |-> ""]]
  /\ UNCHANGED <<qa_data, question_embeddings, qa_json, cache_file, svc_ret,
                 state_lock, pending_qas, sent>>
  /\ UnchangedByBot

\* ... with service_guard held, state_guard is taken, the status inserted
\* under the key of the prompt message, and both guards dropped at the return
EditPromptState(t) ==
  /\ handler[t].pc = "prompt_state"
  /\ qa_lock = t
  /\ StateFree
  /\ pending_qas' = [pending_qas EXCEPT ![t] = handler[t].status]
  /\ handler' = [handler EXCEPT ![t] = NoHandler]
  /\ qa_lock' = 0
  /\ UNCHANGED <<qa_data, question_embeddings, qa_json, cache_file, svc_ret, state_lock, sent>>
  /\ UnchangedByBot

\* message_handler: `qa_service.lock().await.config.clone()`, then handle_qa_reply
ReplyStart(t) ==
  /\ handler[t].pc = "idle"
  /\ svc_pc[t] = "idle"
  /\ ServiceFree
  /\ handler' = [handler EXCEPT ![t].pc = "reply_state"]
  /\ UNCHANGED <<qa_data, question_embeddings, qa_json, cache_file, svc_ret, qa_lock,
                 state_lock, pending_qas, sent>>
  /\ UnchangedByBot

\* handle_qa_reply: state_guard is taken; without a pending entry for the
\* message replied to, the function returns false
ReplyLockState(t) ==
  /\ handler[t].pc = "reply_state"
  /\ StateFree
  /\ IF pending_qas[t] = None
     THEN /\ handler' = [handler EXCEPT ![t] = NoHandler]
          /\ UNCHANGED state_lock
     ELSE /\ handler' = [handler EXCEPT ![t].pc = "reply_config"]
          /\ state_lock' = t
  /\ UNCHANGED <<qa_data, question_embeddings, qa_json, cache_file, svc_ret, qa_lock,
                 pending_qas, sent>>
  /\ UnchangedByBot

\* ... with state_guard held, `qa_service.lock().await.config.clone()`; the
\* status is cloned, and the arms of EditQuestion and EditAnswer drop state_guard
ReplyConfig(t, txt) ==
  /\ handler[t].pc = "reply_config"
  /\ state_lock = t
  /\ ServiceFree
  /\ txt \in ReplyTexts(pending_qas[t][1].kind)
  /\ handler' = [handler EXCEPT ![t] = [pc |-> "reply_service", status |-> pending_qas[t],
                                         text |-> txt]]
  /\ state_lock' = 0
  /\ UNCHANGED <<qa_data, question_embeddings, qa_json, cache_file, svc_ret, qa_lock,
                 pending_qas, sent>>
  /\ UnchangedByBot

\* ... service_guard is taken and update_qa(old_question_hash, question,
\* answer) runs under it; its Err leaves the handler through `?`, after its
\* Ok the success message is sent
ReplyUpdate(t, r, saved, cached) ==
  /\ handler[t].pc = "reply_service"
  /\ ServiceFree
  /\ LET status == handler[t].status[1]
         item == NewItem(status, handler[t].text)
         found == position(qa_data, status.old_question_hash)
         sys == AssignBoth(System, found[1], item, r.vec)
         val == IF found = None THEN "ok"
                ELSE IF r.kind = "err" THEN "err"
                ELSE IF sys.panicked THEN "panic"
                ELSE IF saved /\ cached THEN "ok" ELSE "err"
     IN /\ r \in EmbedResults(item.question)
        /\ IF found = None \/ r.kind = "err"
           THEN UNCHANGED <<qa_data, question_embeddings, qa_json, cache_file>>
           ELSE /\ qa_data' = sys.qa_data
                /\ question_embeddings' = sys.question_embeddings
                /\ qa_json' = IF sys.panicked THEN qa_json
                              ELSE save_all_qa_items(qa_json, ListToSave(qa_data, sys.qa_data), saved)
                /\ cache_file' = IF ~sys.panicked /\ saved
                                 THEN add_embedding_to_cache(cache_file, item.question, r.vec, cached)
                                 ELSE cache_file
        /\ IF val = "ok"
           THEN /\ sent' = [sent EXCEPT ![t] = [text |-> "updated", replaced |-> found # None]]
                /\ handler' = [handler EXCEPT ![t].pc = "reply_remove"]
                /\ qa_lock' = t
           ELSE /\ sent' = [sent EXCEPT ![t] = NoSent]
                /\ handler' = [handler EXCEPT ![t] = NoHandler]
                /\ qa_lock' = 0
  /\ UNCHANGED <<state_lock, pending_qas, svc_ret>>
  /\ UnchangedByBot

\* ... with service_guard held, `state.lock().await.pending_qas.remove(..)`,
\* and the handler returns
ReplyRemove(t) ==
  /\ handler[t].pc = "reply_remove"
  /\ qa_lock = t
  /\ StateFree
  /\ pending_qas' = [pending_qas EXCEPT ![t] = None]
  /\ handler' = [handler EXCEPT ![t] = NoHandler]
  /\ qa_lock' = 0
  /\ UNCHANGED <<qa_data, question_embeddings, qa_json, cache_file, svc_ret, state_lock, sent>>
  /\ UnchangedByBot

\* callback_handler, DeleteConfirm: service_guard is taken and delete_qa
\* runs under it for the item find_by_short_hash gives; the handler reports
\* the result and returns
DeleteConfirm(t, short_hash, saved) ==
  /\ handler[t].pc = "idle"
  /\ svc_pc[t] = "idle"
  /\ ServiceFree
  /\ LET found == find_by_short_hash(qa_data, short_hash)
         index == position(qa_data, found[1].full_hash)
         sys == RemoveBoth(System, index[1])
     IN IF found = None
        THEN UNCHANGED <<qa_data, question_embeddings, qa_json, sent>>
        ELSE /\ qa_data' = sys.qa_data
             /\ question_embeddings' = sys.question_embeddings
             /\ qa_json' = IF sys.panicked THEN qa_json
                           ELSE save_all_qa_items(qa_json, ListToSave(qa_data, sys.qa_data), saved)
             /\ sent' = [sent EXCEPT ![t] = [text |-> IF ~sys.panicked /\ saved THEN "deleted"
                                                       ELSE "none",
                                              replaced |-> FALSE]]
  /\ UNCHANGED <<cache_file, svc_ret, qa_lock, state_lock, pending_qas, handler>>
  /\ UnchangedByBot

(* --------------------------- specifications ---------------------------- *)
\* GeminiKeyManager::new, and no task in a call
NewPool ==
  /\ keys = NewKeys
  /\ last_used_key_index = 0
  /\ keys_lock = 0
  /\ pc = [t \in Tasks |-> "idle"]
  /\ op = [t \in Tasks |-> "none"]
  /\ api_key = [t \in Tasks |-> UnknownKey]
  /\ text = [t \in Tasks |-> ""]
  /\ attempts = [t \in Tasks |-> 0]
  /\ sleep_left = [t \in Tasks |-> 0]
  /\ ret = [t \in Tasks |-> NoRet]
  /\ iter = [t \in Tasks |-> NoIter]
  /\ granted = [i \in 1..NumKeys |-> <<>>]
  /\ rr_run = <<>>
  /\ last_call = NoCall

\* QAService::new behind its mutex, AppState::new, and no process in a call
NewService ==
  /\ qa_data = <<>>
  /\ question_embeddings = <<>>
  /\ qa_lock = 0
  /\ is_qa_ready = FALSE
  /\ svc_pc = [p \in Procs |-> "idle"]
  /\ svc_call = [p \in Procs |-> NoSvcCall]
  /\ svc_ret = NoSvcRet
  /\ final_embeddings = <<>>
  /\ embeddings_cache = <<>>
  /\ cache_was_updated = FALSE

\* no call of the management module in progress
NewMgmt ==
  /\ json_local = [t \in Tasks |-> <<>>]
  /\ mgmt_added = {}

InitPool ==
  /\ tod \in 0..(DAY - 1)
  /\ NewPool
  /\ NewService
  /\ qa_json = <<>>
  /\ cache_file = <<>>
  /\ NewMgmt
  /\ NoCacheIO
  /\ NewBot
  /\ restarted_from = None
  /\ NoListCache
  /\ sim_call = NoSimCall

NextPool ==
  \/ Tick
  \/ \E t \in Tasks : CallGetKey(t)
  \/ \E t \in Tasks : \E s \in {UnknownKey} \cup {api_keys[i] : i \in 1..NumKeys} : CallDisableKey(t, s)
  \/ \E t \in Tasks : GetKey(t)
  \/ \E t \in Tasks : DisableKey(t)

\* the credential pool used directly by concurrent callers
SpecPool == InitPool /\ [][NextPool]_vars

InitEmbed == InitPool

NextEmbed ==
  \/ Tick
  \/ \E t \in Embedder : \E txt \in Texts : CallEmbed(t, txt)
  \/ \E t \in Embedder : EmbedGiveUp(t)
  \/ \E t \in Embedder : EmbedAttempt(t)
  \/ \E t \in Embedder : EmbedGetKey(t)
  \/ \E t \in Embedder : ProviderOk(t)
  \/ \E t \in Embedder : \E e \in ProviderErrors : ProviderErr(t, e)
  \/ \E t \in Embedder : EmbedDisableLock(t)
  \/ \E t \in Embedder : EmbedDisableKey(t)

\* generate_embedding_with_retry over the pool, one call at a time
SpecEmbed == InitEmbed /\ [][NextEmbed]_vars

\* the program after main has built the service: the files hold what earlier
\* runs wrote, the load task has not run yet
InitQA ==
  /\ tod = 0
  /\ NewPool
  /\ NewService
  /\ qa_json \in ItemLists
  /\ cache_file \in WrittenCacheFiles
  /\ NewMgmt
  /\ NoCacheIO
  /\ NewBot
  /\ restarted_from = None
  /\ NoListCache
  /\ sim_call = NoSimCall

NextCrud ==
  \/ \E t \in Tasks : \E q \in Texts : \E a \in Answers : CallAddQa(t, q, a)
  \/ \E t \in Tasks : \E r \in EmbedResults(svc_call[t].item.question) :
        \E saved \in BOOLEAN : \E cached \in BOOLEAN : AddQaEmbedded(t, r, saved, cached)
  \/ \E t \in Tasks : \E h \in Hashes : \E saved \in BOOLEAN : DeleteQa(t, h, saved)
  \/ \E t \in Tasks : \E h \in Hashes : \E q \in Texts : \E a \in Answers : CallUpdateQa(t, h, q, a)
  \/ \E t \in Tasks : \E r \in EmbedResults(svc_call[t].item.question) :
        \E saved \in BOOLEAN : \E cached \in BOOLEAN : UpdateQaEmbedded(t, r, saved, cached)

NextLoad ==
  \/ \E readable \in BOOLEAN : \E parsed \in BOOLEAN : LoadCall(readable, parsed)
  \/ \E kind \in {"ok", "err"} : LoadItem(kind)
  \/ \E saved \in BOOLEAN : LoadFinish(saved)

NextFind ==
  \/ \E t \in Tasks : \E txt \in QueryTexts : CallFind(t, txt)
  \/ \E t \in Tasks : \E r \in EmbedResults(svc_call[t].item.question) : FindEmbedded(t, r)

NextQA == NextLoad \/ NextCrud \/ NextFind

\* the service from its construction: the load task and the handlers
SpecQA == InitQA /\ [][NextQA]_vars

\* the process ends between two calls and is started again: main builds
\* QAService::new and AppState::new and spawns the load task; the QA JSON
\* file and the cache file are what the ended process left
Restart ==
  /\ restarted_from = None
  /\ is_qa_ready
  /\ svc_pc[Loader] = "done"
  /\ \A t \in Tasks : svc_pc[t] = "idle"
  /\ ServiceFree
  /\ restarted_from' = Some([qa_data |-> qa_data, question_embeddings |-> question_embeddings,
                             last |-> svc_ret])
  /\ qa_data' = <<>>
  /\ question_embeddings' = <<>>
  /\ is_qa_ready' = FALSE
  /\ svc_pc' = [p \in Procs |-> "idle"]
  /\ svc_ret' = NoSvcRet
  /\ UNCHANGED <<qa_lock, svc_call, final_embeddings, embeddings_cache, cache_was_updated,
                 qa_json, cache_file>>
  /\ UNCHANGED <<tod, keys, last_used_key_index, keys_lock, pc, op, api_key,
                 text, attempts, sleep_left, ret, iter, granted, rr_run, last_call,
                 json_local, mgmt_added, cache_disk, cache_op, sim_call, list_disk, list_op,
                 state_lock, pending_qas, handler, sent>>

\* the load has returned Ok and the process has not been restarted
LoadedOnce == is_qa_ready /\ restarted_from = None

\* the vector generate_embedding_with_retry returns to the call of task t
OkResult(t) == [kind |-> "ok", vec |-> VecOf(svc_call[t].item.question)]

\* the calls of the handlers after the load, their embedding and their
\* writes succeeding
NextCrudOk ==
  \/ \E t \in Tasks : \E q \in Texts : \E a \in Answers : LoadedOnce /\ CallAddQa(t, q, a)
  \/ \E t \in Tasks : LoadedOnce /\ AddQaEmbedded(t, OkResult(t), TRUE, TRUE)
  \/ \E t \in Tasks : \E h \in Hashes : LoadedOnce /\ DeleteQa(t, h, TRUE)
  \/ \E t \in Tasks : \E h \in Hashes : \E q \in Texts : \E a \in Answers :
        LoadedOnce /\ CallUpdateQa(t, h, q, a)
  \/ \E t \in Tasks : LoadedOnce /\ UpdateQaEmbedded(t, OkResult(t), TRUE, TRUE)

\* a load that succeeds, calls that succeed after it, then a restart and the
\* load of the new process
NextRestart ==
  \/ LoadCall(TRUE, TRUE)
  \/ LoadItem("ok")
  \/ LoadFinish(TRUE)
  \/ NextCrudOk
  \/ Restart

SpecRestart == InitQA /\ [][NextRestart]_vars

\* the service after a load that returned Ok: the lists are those of the QA
\* JSON file and their vectors, which the cache file holds
InitCrud ==
  /\ tod = 0
  /\ NewPool
  /\ qa_json \in ItemLists
  /\ qa_data = qa_json
  /\ question_embeddings = [i \in 1..Len(qa_data) |-> VecOf(qa_data[i].question)]
  /\ cache_file \in {c \in WrittenCacheFiles :
                        \A i \in 1..Len(qa_data) : get_question_hash(qa_data[i].question) \in DOMAIN c}
  /\ qa_lock = 0
  /\ is_qa_ready = TRUE
  /\ svc_pc = [p \in Procs |-> IF p = Loader THEN "done" ELSE "idle"]
  /\ svc_call = [p \in Procs |-> NoSvcCall]
  /\ svc_ret = SvcRet(Loader, "ok")
  /\ final_embeddings = <<>>
  /\ embeddings_cache = <<>>
  /\ cache_was_updated = FALSE
  /\ NewMgmt
  /\ NoCacheIO
  /\ NewBot
  /\ restarted_from = None
  /\ NoListCache
  /\ sim_call = NoSimCall

\* add_qa, delete_qa and update_qa on a loaded service
SpecCrud == InitCrud /\ [][NextCrud]_vars

NextLookup == \E t \in Tasks : \E p \in ShortHashes : FindByShortHash(t, p)

\* add_qa, delete_qa, update_qa and find_by_short_hash on a loaded service
SpecLookup == InitCrud /\ [][NextCrud \/ NextLookup]_vars

\* the cache file is missing, empty, or was written by an earlier run
InitCache ==
  /\ tod = 0
  /\ NewPool
  /\ NewService
  /\ qa_json = <<>>
  /\ cache_file = <<>>
  /\ NewMgmt
  /\ cache_disk \in {MissingFile, FileWith(<<>>)}
                    \cup UNION {{FileWith(to_string_pretty(c, o)) : o \in Orders(DOMAIN c)} :
                                c \in WrittenCacheFiles}
  /\ cache_op = NoCacheOp
  /\ NewBot
  /\ restarted_from = None
  /\ NoListCache
  /\ sim_call = NoSimCall

NextCache ==
  \/ \E cache \in WrittenCacheFiles : \E order \in Orders(DOMAIN cache) :
       \E written \in BOOLEAN : SaveCache(cache, order, written)
  \/ \E cache \in WrittenCacheFiles : \E order \in Orders(DOMAIN cache) :
       \E n \in 0..Len(to_string_pretty(cache, order)) :
         SaveCacheCrash(cache, order, FileWith(SubSeq(to_string_pretty(cache, order), 1, n)))
  \/ \E cache \in WrittenCacheFiles : SaveCacheCrash(cache, <<>>, cache_disk)
  \/ \E dir_ok \in BOOLEAN : \E opened \in BOOLEAN : LoadCache(dir_ok, opened)

\* save_embeddings_cache and load_embeddings_cache on one cache file
SpecCache == InitCache /\ [][NextCache]_vars

\* a caller holds two slices and has not called yet
InitSim ==
  /\ tod = 0
  /\ NewPool
  /\ NewService
  /\ qa_json = <<>>
  /\ cache_file = <<>>
  /\ NewMgmt
  /\ NoCacheIO
  /\ NewBot
  /\ restarted_from = None
  /\ NoListCache
  /\ \E a \in SimVectors : \E b \in SimVectors : sim_call = [NoSimCall EXCEPT !.a = a, !.b = b]

NextSim == CosineSimilarity

\* search::cosine_similarity called on pairs of slices
SpecSim == InitSim /\ [][NextSim]_vars

\* no cache of the list yet, or the two files an earlier run saved
InitList ==
  /\ tod = 0
  /\ NewPool
  /\ NewService
  /\ qa_json = <<>>
  /\ cache_file = <<>>
  /\ NewMgmt
  /\ NoCacheIO
  /\ NewBot
  /\ restarted_from = None
  /\ sim_call = NoSimCall
  /\ list_disk \in {NoListDisk}
       \cup {save_embeddings_cache(NoListDisk, calculate_qa_hash(data), EmbeddingsOf(data), "none").disk :
               data \in CachedLists}
  /\ list_op = NoListOp

NextList ==
  \/ \E data \in CachedLists : \E failed \in SaveFailures : SaveListCache(data, failed)
  \/ \E data \in CachedLists : \E read_ok \in BOOLEAN : \E opened \in BOOLEAN :
       LoadCachedEmbeddings(data, read_ok, opened)
  \/ \E which \in {"cache", "hash"} : RemoveListFile(which)

\* save_embeddings_cache and load_cached_embeddings of qa/mod.rs on one path
SpecList == InitList /\ [][NextList]_vars

\* the most items of the list the edit flow is run on
MaxEdited == 1

\* a loaded service with a short list, and no handler running
InitBot == InitCrud /\ Len(qa_json) <= MaxEdited

NextBot ==
  \/ \E t \in Tasks : \E kind \in {"EditQuestion", "EditAnswer"} : \E h \in Hashes :
       EditPromptLock(t, kind, h)
  \/ \E t \in Tasks : EditPromptState(t)
  \/ \E t \in Tasks : ReplyStart(t)
  \/ \E t \in Tasks : ReplyLockState(t)
  \/ \E t \in Tasks : \E txt \in Texts \cup Answers : ReplyConfig(t, txt)
  \/ \E t \in Tasks : \E r \in UNION {EmbedResults(q) : q \in Texts} :
       \E saved \in BOOLEAN : \E cached \in BOOLEAN : ReplyUpdate(t, r, saved, cached)
  \/ \E t \in Tasks : ReplyRemove(t)
  \/ \E t \in Tasks : \E h \in Hashes : \E saved \in BOOLEAN : DeleteConfirm(t, h, saved)

\* the handlers of the edit flow and of DeleteConfirm on a loaded service
SpecBot == InitBot /\ [][NextBot]_vars

InitMgmt == InitCrud

NextMgmt ==
  \/ \E t \in Tasks : \E q \in Texts : \E a \in Answers : \E readable \in BOOLEAN :
        MgmtAddRead(t, q, a, readable)
  \/ \E t \in Tasks : \E written \in BOOLEAN : MgmtAddWrite(t, written)
  \/ \E t \in Tasks : \E readable \in BOOLEAN : MgmtReloadCall(t, readable)
  \/ \E t \in Tasks : \E kind \in {"ok", "err"} : MgmtReloaded(t, kind)

\* management::add_qa called by concurrent tasks on a loaded system
SpecMgmt == InitMgmt /\ [][NextMgmt]_vars

(* ------------------------------ claims --------------------------------- *)
\* C1: from a state where qa_data and question_embeddings are equally long,
\* they are equally long after every sequence of add_qa, delete_qa and
\* update_qa calls, whether a call succeeds, fails in the embedding or fails
\* in a write after the lists were changed.
C1_EqualLengths == Len(qa_data) = Len(question_embeddings)

\* a call failed in a write after it changed the lists in memory
C1_Witness ==
  \E t \in Tasks : /\ svc_ret.proc = t /\ svc_ret.val = "err"
                    /\ qa_data # qa_json /\ Len(qa_data) > 0

\* C2: whenever the mutex of the service is free, also after
\* load_and_embed_all returned an error, qa_data and question_embeddings are
\* equally long and question_embeddings[i] is the vector of the question of
\* qa_data[i].
C2_ParallelWhenUnlocked ==
  qa_lock = 0 =>
    /\ Len(qa_data) = Len(question_embeddings)
    /\ \A i \in 1..Len(qa_data) : question_embeddings[i] = VecOf(qa_data[i].question)

\* the latest step was a get_key call
AfterGetKey == last_call.op = "get_key"

\* the credentials (1-based) that were disabled or over budget at that call
Ineligible == last_call.disabled \cup last_call.over

\* the 0-based index of the first eligible credential in cyclic order just
\* after the cursor, or -1
FirstEligible ==
  LET n == NumKeys
      ds == {d \in 0..(n - 1) : (((last_call.cursor + 1 + d) % n) + 1) \notin Ineligible}
  IN IF ds = {} THEN -1
     ELSE (last_call.cursor + 1 + (CHOOSE d \in ds : \A e \in ds : d <= e)) % n

\* C3: get_key never returns a credential whose disabled_until is later than
\* the time of the call.
C3_NeverReturnsDisabled ==
  (AfterGetKey /\ last_call.ok) => (last_call.idx + 1) \notin last_call.disabled

\* a get_key call returned a credential while another one was still disabled
C3_Witness == AfterGetKey /\ last_call.ok /\ last_call.disabled # {}

\* C4: for every credential the number of get_key returns in the trailing
\* minute never exceeds rpm_limit and in the trailing day never exceeds
\* rpd_limit, and the body of get_key runs only while its caller holds the lock.
C4_BudgetsRespected ==
  /\ \A i \in 1..NumKeys :
       /\ GrantsWithin(i, MINUTE) <= RpmLimit
       /\ GrantsWithin(i, DAY) <= RpdLimit
  /\ \A t \in Tasks : pc[t] \in {"get_key_locked", "disable_key_locked"} => keys_lock = t

\* a get_key call passed over a credential that had used up its day while its
\* minute was free, and one that had used up its minute while its day was not
C4_Witness ==
  /\ AfterGetKey
  /\ \E i \in last_call.over : GrantsWithin(i, DAY) = RpdLimit /\ GrantsWithin(i, MINUTE) < RpmLimit
  /\ \E i \in last_call.over : GrantsWithin(i, MINUTE) = RpmLimit /\ GrantsWithin(i, DAY) < RpdLimit

\* C5: get_key returns an error only when every credential is disabled or
\* over a budget at the time of the call; when one is neither, it returns
\* such a credential.
C5_ErrorOnlyWhenNoneUsable ==
  AfterGetKey =>
    /\ ~last_call.ok <=> (\A i \in 1..NumKeys : i \in Ineligible)
    /\ last_call.ok => (last_call.idx + 1) \in (1..NumKeys) \ Ineligible

\* get_key failed with one credential disabled and another over budget
C5_Witness ==
  /\ AfterGetKey /\ ~last_call.ok
  /\ last_call.disabled # {}
  /\ last_call.over \ last_call.disabled # {}

\* C6: consecutive get_key calls that find every credential usable return no
\* credential twice within NumKeys calls; get_key returns the first usable
\* credential in cyclic order just after the cursor and moves the cursor to it.
C6_RoundRobin ==
  /\ \A a, b \in 1..Len(rr_run) : a # b => rr_run[a] # rr_run[b]
  /\ (AfterGetKey /\ last_call.ok) =>
       /\ last_call.idx = FirstEligible
       /\ last_used_key_index = last_call.idx

\* NumKeys consecutive calls found every credential usable
C6_Witness == NumKeys >= 2 /\ Len(rr_run) = NumKeys

\* C7: a get_key call made once the clock has reached a credential's
\* disabled_until clears it, and returns that credential when it is under
\* budget and the first eligible one in round-robin order.
C7_ReenabledAtBoundary ==
  AfterGetKey =>
    \A i \in last_call.due :
      /\ keys[i].disabled_until = None
      /\ (i \notin last_call.over /\ FirstEligible = i - 1)
           => (last_call.ok /\ last_call.idx = i - 1)

\* a get_key call returned a credential whose disabled_until had just been reached
C7_Witness == AfterGetKey /\ last_call.ok /\ (last_call.idx + 1) \in last_call.due

\* what is left of a call of generate_embedding_with_retry: the iterations
\* not begun, the steps left of the current one, the ticks left to sleep
StepsLeft(t) ==
  IF op[t] # "embed" THEN 0
  ELSE (MAX_ATTEMPTS - attempts[t]) * (6 + NO_KEY_SLEEP)
       + sleep_left[t]
       + (CASE pc[t] = "get_key_locked" -> 5 + NO_KEY_SLEEP
            [] pc[t] = "provider" -> 4 + NO_KEY_SLEEP
            [] pc[t] = "disable_key" -> 3
            [] pc[t] = "disable_key_locked" -> 2
            [] OTHER -> 1)

C8_Results ==
  \A t \in Embedder :
    /\ attempts[t] <= MAX_ATTEMPTS
    /\ pc[t] = "provider" => (attempts[t] >= 1 /\ iter[t].fails = attempts[t] - 1)
    /\ pc[t] \in {"loop", "sleep", "disable_key"} => keys_lock = 0
    /\ ret[t].kind = "ok" =>
         /\ ret[t].vec = VecOf(text[t])
         /\ iter[t].fail = "none"
         /\ iter[t].fails = ret[t].attempts - 1
    /\ ret[t].kind = "err" =>
         /\ ret[t].attempts = MAX_ATTEMPTS
         /\ iter[t].fails = MAX_ATTEMPTS
         /\ iter[t].fail # "none"

C8_Progress ==
  \A t \in Embedder :
    op[t] = "embed" =>
      /\ StepsLeft(t)' <= StepsLeft(t)
      /\ (pc'[t] # pc[t] \/ attempts'[t] # attempts[t]) => StepsLeft(t)' < StepsLeft(t)

\* C8: generate_embedding_with_retry makes at most MAX_ATTEMPTS iterations,
\* each with at most one provider call, and every step of it brings its return
\* nearer; it returns the vector of the first successful provider call, and
\* it returns an error exactly when MAX_ATTEMPTS iterations have failed,
\* never before.
C8_BoundedRetries == []C8_Results /\ [][C8_Progress]_vars

\* a call returned the error after MAX_ATTEMPTS failed iterations
C8_Witness == \E t \in Embedder : ret[t].kind = "err" /\ iter[t].fails = MAX_ATTEMPTS

\* C9: after a provider failure classified as rate limit, the loop calls
\* disable_key with the secret it used for that call, and reaches the next
\* iteration without sleeping.
C9_RateLimitDisablesAndRetries ==
  \A t \in Embedder :
    /\ iter[t].fail = "rate_limited" =>
         /\ pc[t] # "sleep"
         /\ iter[t].slept = 0
         /\ pc[t] \in {"disable_key", "disable_key_locked"} \/ iter[t].disabled
    /\ pc[t] \in {"disable_key", "disable_key_locked"} =>
         (iter[t].fail = "rate_limited" /\ ~iter[t].disabled)
    /\ pc[t] = "disable_key_locked" => api_key[t] = iter[t].key
    /\ (last_call.op = "disable_key" /\ last_call.task = t) =>
         /\ last_call.secret = iter[t].key
         /\ \E i \in 1..NumKeys : keys[i].key = iter[t].key /\ DisabledNow(keys[i])

\* the iteration after a rate-limited one has begun, the key disabled
C9_Witness ==
  \E t \in Embedder :
    /\ iter[t].fail = "rate_limited" /\ iter[t].disabled
    /\ pc[t] = "get_key_locked"

\* C10: after a provider failure that is not a rate limit, the loop does not
\* call disable_key and sleeps RETRY_SLEEP before the next iteration.
C10_OtherFailureSleeps ==
  \A t \in Embedder :
    iter[t].fail = "other" =>
      /\ ~iter[t].disabled
      /\ pc[t] \notin {"disable_key", "disable_key_locked"}
      /\ (pc[t] = "sleep" /\ sleep_left[t] > 0) \/ iter[t].slept >= RETRY_SLEEP

\* the iteration after a failed one has begun, after the sleep
C10_Witness ==
  \E t \in Embedder :
    /\ iter[t].fail = "other" /\ iter[t].slept >= RETRY_SLEEP
    /\ pc[t] = "get_key_locked"

\* C11: after get_key fails, the same call of generate_embedding_with_retry
\* sleeps NO_KEY_SLEEP before it asks get_key again: it never asks again at
\* once.
C11_NoKeySleeps ==
  \A t \in Embedder :
    iter[t].fail = "no_key" =>
      /\ ~iter[t].disabled
      /\ (pc[t] = "sleep" /\ sleep_left[t] > 0) \/ iter[t].slept >= NO_KEY_SLEEP

\* get_key is asked again after it failed, after the sleep
C11_Witness ==
  \E t \in Embedder :
    /\ iter[t].fail = "no_key" /\ iter[t].slept >= NO_KEY_SLEEP
    /\ pc[t] = "get_key_locked"

\* C12: the keys mutex is held only inside get_key and inside disable_key:
\* never while a provider call or a sleep of generate_embedding_with_retry
\* is in progress.
C12_PoolLockOnlyInsidePool ==
  /\ keys_lock # 0 => pc[keys_lock] \in {"get_key_locked", "disable_key_locked"}
  /\ \A t \in Embedder : pc[t] \in {"provider", "sleep"} => keys_lock = 0

\* a provider call and a sleep in progress
C12_Witness ==
  \E t \in Embedder :
    /\ pc[t] = "sleep" /\ sleep_left[t] > 0 /\ iter[t].fail = "other"
    /\ keys_lock = 0

\* process p is inside a call of the service
InCall(p) == svc_pc[p] \notin {"idle", "done"}

\* C13: the QAService mutex is not held while an embedding of add_qa,
\* update_qa, find_matching_qa or load_and_embed_all is in flight.
C13_ServiceLockFreeWhileEmbedding ==
  \A p \in Procs : svc_pc[p] = "embed" => qa_lock # p

\* C14: concurrent handlers run their service calls one at a time: at most
\* one process is inside a call, it owns the mutex, and until its call ends
\* the lists and the QA JSON file are as it found them; a find_matching_qa
\* in progress reads lists of equal length that no one else is changing.
C14_OneAtATime ==
  /\ \A p, q \in Procs : InCall(p) /\ InCall(q) => p = q
  /\ \A p \in Procs : InCall(p) => qa_lock = p
  /\ \A t \in Tasks : InCall(t) => svc_call[t].seen = Seen
  /\ \A t \in Tasks : InCall(t) /\ svc_call[t].op = "find_matching_qa" =>
        Len(qa_data) = Len(question_embeddings)

\* a mutation is in progress on a loaded service while another handler,
\* which could ask find_matching_qa, has to wait for the mutex
C14_Witness ==
  \E t, u \in Tasks :
    /\ t # u /\ InCall(t) /\ svc_call[t].op \in {"add_qa", "update_qa"}
    /\ svc_pc[u] = "idle" /\ is_qa_ready /\ question_embeddings # <<>> /\ ~ServiceFree

\* every item management::add_qa wrote to the QA JSON file is in the file
MgmtNoLostItem ==
  \A item \in mgmt_added : \E i \in 1..Len(qa_json) : qa_json[i] = item

\* C15: the QA JSON file is read, changed and written back only by a task
\* that holds the mutex of the in-memory lists, so that no item written by
\* one of two concurrent adds is lost from the file.
C15_StoreWrittenUnderLock ==
  /\ \A t \in Tasks : svc_pc[t] = "json_read" => qa_lock = t
  /\ MgmtNoLostItem

\* a step after which the latest return of the service is not an error: no
\* add_qa, delete_qa, update_qa or load returns an error in it
NoFailedReturn == svc_ret'.val \notin {"err", "panic"}

\* C16: when load_and_embed_all has returned Ok the QA JSON file holds the
\* list qa_data, in its order, and no step of add_qa, delete_qa or
\* update_qa other than a return with an error ends this: after a load and
\* calls that all returned Ok, the file holds exactly qa_data.
C16_StoreIsMemoryAfterOk ==
  /\ []((svc_ret.proc = Loader /\ svc_ret.val = "ok") => qa_json = qa_data)
  /\ [][(qa_json = qa_data /\ NoFailedReturn) => qa_json' = qa_data']_vars

\* a call that changed the list has returned Ok on a loaded service
C16_Witness ==
  \E t \in Tasks :
    /\ svc_ret.proc = t /\ svc_ret.val = "ok" /\ is_qa_ready
    /\ qa_json = qa_data /\ Len(qa_data) = MaxItems

\* the similarities of the stored vectors to the vector of a query text
SimsTo(txt) ==
  [i \in 1..Len(question_embeddings) |->
     cosine_similarity(VecOf(txt), question_embeddings[i])]

\* the positions whose similarity no other position exceeds
MaxPositions(sims) ==
  {i \in 1..Len(sims) :
     \A j \in 1..Len(sims) : partial_cmp(sims[j], sims[i]) # "Greater"}

\* C17: find_matching_qa returns None without calling the provider when
\* there are no vectors, None when the greatest cosine similarity is
\* strictly below the threshold, and otherwise the entry of qa_data at a
\* position of greatest similarity.
C17_FindResult ==
  svc_ret.val = "found" =>
    LET sims == SimsTo(svc_ret.query)
    IN IF question_embeddings = <<>>
       THEN svc_ret.item = None /\ ~svc_ret.embedded
       ELSE /\ svc_ret.embedded
            /\ \A i \in MaxPositions(sims) :
                 IF partial_cmp(sims[i], threshold) = "Less"
                 THEN svc_ret.item = None
                 ELSE \E k \in MaxPositions(sims) :
                        k <= Len(qa_data) /\ svc_ret.item = Some(qa_data[k])

\* a query whose best similarity is exactly the threshold got an entry
C17_Witness ==
  /\ svc_ret.val = "found" /\ svc_ret.query = "q3"
  /\ svc_ret.item # None /\ question_embeddings # <<>>

\* C18: when several stored vectors have the same greatest similarity to
\* the query, find_best_match returns the smallest of their indices.
C18_TieSmallestIndex ==
  (svc_ret.val = "found" /\ svc_ret.embedded) =>
    LET best == MaxPositions(SimsTo(svc_ret.query))
        found == find_best_match(VecOf(svc_ret.query), question_embeddings)
    IN \A i \in best : found[1].index <= i

\* task t returns from add_qa in this step
AddReturns(t) ==
  svc_pc[t] = "embed" /\ svc_call[t].op = "add_qa" /\ svc_pc'[t] = "idle"

\* C19: an add_qa that returns Ok has appended the entry and its vector at
\* the same new last index of qa_data and question_embeddings, left every
\* earlier position of both unchanged, written the whole list to the QA
\* JSON file and put the vector into the cache file under the hash of the
\* new question.
C19_SuccessfulAdd ==
  [][\A t \in Tasks :
       (AddReturns(t) /\ svc_ret'.val = "ok") =>
         LET item == svc_call[t].item
             n == Len(qa_data) + 1
             hash == get_question_hash(item.question)
         IN /\ Len(qa_data') = n /\ Len(question_embeddings') = n
            /\ qa_data'[n] = item
            /\ question_embeddings'[n] = VecOf(item.question)
            /\ \A i \in 1..(n - 1) :
                 qa_data'[i] = qa_data[i] /\ question_embeddings'[i] = question_embeddings[i]
            /\ qa_json' = qa_data'
            /\ hash \in DOMAIN cache_file'
            /\ cache_file'[hash] = VecOf(item.question)]_vars

\* the list holds the entry
Contains(list, item) == \E i \in 1..Len(list) : list[i] = item

\* C20: when add_qa returns, with Ok or with an error, the entry is in
\* qa_data and in the QA JSON file, or in neither of them.
C20_AddAllOrNothing ==
  [][\A t \in Tasks :
       AddReturns(t) =>
         (Contains(qa_data', svc_call[t].item) <=> Contains(qa_json', svc_call[t].item))]_vars

\* the position, counted from 1, holds an entry whose question has the hash
HasHash(data, i, hash) == get_question_hash(data[i].question) = hash

\* the first position of the hash in the list: i, and no position before it
FirstWithHash(data, i, hash) ==
  /\ i \in 1..Len(data) /\ HasHash(data, i, hash)
  /\ \A j \in 1..(i - 1) : ~HasHash(data, j, hash)

\* a delete_qa that returns Ok in this step
DeleteReturnsOk == svc_ret'.op = "delete_qa" /\ svc_ret'.val = "ok"

UpdateReturnsOk(t) ==
  /\ svc_pc[t] = "embed" /\ svc_call[t].op = "update_qa"
  /\ svc_ret'.op = "update_qa" /\ svc_ret'.val = "ok" /\ svc_ret'.proc = t

C23_ReportsFound ==
  (svc_ret.op \in {"delete_qa", "update_qa"} /\ svc_ret.index = 0) =>
    svc_ret.val \notin {"err", "panic", "ok"}

\* a delete_qa of the question of the last entry returns Ok in this step,
\* the step before having been the Ok return of the add_qa of that entry
AddThenDelete ==
  /\ svc_ret.op = "add_qa" /\ svc_ret.val = "ok" /\ Len(qa_data) > 0
  /\ svc_ret'.op = "delete_qa" /\ svc_ret'.val = "ok"
  /\ svc_ret'.hash = get_question_hash(qa_data[Len(qa_data)].question)

\* C24: after an add_qa(e) that returned Ok and a delete_qa of the hash of
\* e's question after it, qa_data is as long as before the add_qa and
\* find_by_short_hash of that hash returns no entry.
C24_AddThenDelete ==
  [][AddThenDelete =>
       /\ Len(qa_data') = Len(qa_data) - 1
       /\ find_by_short_hash(qa_data', svc_ret'.hash) = None]_vars

\* C30: find_by_short_hash(p) returns the first entry of qa_data whose
\* question hash starts with p, with that hash, and None when the hash of
\* no entry starts with p.
C30_FirstByPrefix ==
  svc_ret.op = "find_by_short_hash" =>
    LET p == svc_ret.hash
        Starts(i) == starts_with(get_question_hash(qa_data[i].question), p)
    IN IF \A i \in 1..Len(qa_data) : ~Starts(i)
       THEN svc_ret.item = None
       ELSE \E i \in 1..Len(qa_data) :
              /\ Starts(i) /\ \A j \in 1..(i - 1) : ~Starts(j)
              /\ svc_ret.item = Some([item |-> qa_data[i],
                                      full_hash |-> get_question_hash(qa_data[i].question)])

\* the beginning that two different hashes share found the first of them
C30_Witness ==
  /\ svc_ret.op = "find_by_short_hash" /\ Len(svc_ret.hash) = 1
  /\ Len(qa_data) = 2 /\ qa_data[1].question # qa_data[2].question
  /\ svc_ret.item = Some([item |-> qa_data[1],
                          full_hash |-> get_question_hash(qa_data[1].question)])

\* the number of positions of a sequence that hold x
Occurrences(seq, x) == Cardinality({i \in 1..Len(seq) : seq[i] = x})

CacheWasReadable ==
  svc_pc[Loader] = "load_items" => svc_call[Loader].seen[1].cache = cache_file

\* C26: no step of add_qa, update_qa, delete_qa or of a load that could read
\* the cache file takes a hash out of the cache file or changes the vector
\* under a hash that is in it, and delete_qa leaves the file as it is.
C26_CacheOnlyGrows ==
  [][CacheWasReadable =>
       /\ \A h \in DOMAIN cache_file :
            h \in DOMAIN cache_file' /\ cache_file'[h] = cache_file[h]
       /\ svc_ret'.op = "delete_qa" => cache_file' = cache_file]_vars

\* a delete_qa has removed an entry of a loaded service whose vector is in
\* the cache file, and the file still holds the vectors of all questions
C26_Witness ==
  /\ svc_ret.op = "delete_qa" /\ svc_ret.index > 0 /\ svc_ret.val = "ok"
  /\ is_qa_ready /\ DOMAIN cache_file = Hashes
  /\ svc_ret.hash \in DOMAIN cache_file

\* a load_embeddings_cache has returned, and the call before it was a
\* save_embeddings_cache that ended with val
LoadedAfterSave(val) ==
  /\ cache_op.op = "load_embeddings_cache" /\ cache_op.val = "ok"
  /\ cache_op.prev # None
  /\ cache_op.prev[1].op = "save_embeddings_cache" /\ cache_op.prev[1].val = val

\* C27: a load_embeddings_cache after a process died in the middle of
\* save_embeddings_cache returns every pair of hash and vector that was
\* persisted before that write.
C27_CrashKeepsPersisted ==
  LoadedAfterSave("crash") =>
    \A h \in DOMAIN cache_op.prev[1].old :
      h \in DOMAIN cache_op.map /\ cache_op.map[h] = cache_op.prev[1].old[h]

\* C28: load_embeddings_cache, when create_dir_all and File::open succeed,
\* returns Ok with the empty map for a cache file that is missing and for
\* one that cannot be parsed.
C28_LoadNeverFailsOnFile ==
  (/\ cache_op.op = "load_embeddings_cache" /\ cache_op.dir_ok
   /\ \/ ~cache_disk.exists
      \/ cache_op.opened /\ from_reader(cache_disk.content) = None) =>
    cache_op.val = "ok" /\ cache_op.map = <<>>

\* a load of the beginning of a file that an interrupted write left
C28_Witness ==
  /\ LoadedAfterSave("crash")
  /\ cache_disk.exists /\ Len(cache_disk.content) > 0
  /\ from_reader(cache_disk.content) = None
  /\ cache_op.map = <<>>

DisableKeyReturns(t) == pc[t] = "disable_key_locked" /\ pc'[t] # "disable_key_locked"

\* time left d leads from the time of day t to the next midnight after t
IsNextMidnight(t, d) == d \in 1..DAY /\ (t + d) % DAY = 0

\* C31: disable_key(k) sets disabled_until of the credential with secret k
\* to the next midnight after the current instant and leaves every other
\* credential, and the requests of that one, as they were; a call for a
\* credential already disabled on this day changes nothing, calling again
\* at once changes nothing, and a secret that no credential has changes
\* nothing.
C31_DisableEffect ==
  [][\A t \in Tasks : DisableKeyReturns(t) =>
       LET secret == api_key[t]
           hits == {i \in 1..Len(keys) : keys[i].key = secret}
       IN /\ Len(keys') = Len(keys)
          /\ \A i \in 1..Len(keys) :
                IF i \in hits
                THEN /\ keys'[i].disabled_until # None
                     /\ IsNextMidnight(tod, keys'[i].disabled_until[1])
                     /\ keys'[i].key = keys[i].key
                     /\ keys'[i].requests = keys[i].requests
                ELSE keys'[i] = keys[i]
          /\ last_used_key_index' = last_used_key_index
          /\ (\A i \in hits : DisabledNow(keys[i])) => keys' = keys
          /\ disable_key(keys', secret, tod') = keys'
          /\ hits = {} => keys' = keys]_vars

\* a disable_key call returned for a credential that an earlier call had
\* disabled, while another credential is enabled
C31_Witness ==
  /\ last_call.op = "disable_key"
  /\ \E i \in 1..Len(keys) : keys[i].key = last_call.secret /\ i \in last_call.disabled
  /\ \E i \in 1..Len(keys) : keys[i].disabled_until = None

\* the f64 values 0.0 and 1.0 as pairs
IsZero(x) == x = <<0, 1>>

IsOne(x) == x[2] # 0 /\ x[1] = x[2]

ZeroVector(v) == \A i \in 1..Len(v) : v[i] = 0

LoadAfterSave ==
  /\ list_op.op = "load_cached_embeddings" /\ list_op.io_ok
  /\ list_op.last_save # None /\ list_op.last_save[1].val = "ok"

EmbedsForChange(t) ==
  /\ svc_pc[t] # "embed" /\ svc_pc'[t] = "embed"
  /\ svc_call'[t].op \in {"add_qa", "update_qa"}

\* C34: add_qa and update_qa look the hash of the question up in the
\* embedding cache first: for a question whose hash the cache holds they
\* do not call generate_embedding_with_retry.
C34_CacheConsultedFirst ==
  [][\A t \in Tasks :
       EmbedsForChange(t) =>
         get_question_hash(svc_call'[t].item.question) \notin DOMAIN cache_file]_vars

\* a call of delete_qa or update_qa with a hash that no entry has returns
NotFoundCall ==
  /\ svc_ret' # svc_ret
  /\ svc_ret'.op \in {"delete_qa", "update_qa"}
  /\ svc_pc[svc_ret'.proc] = "idle"
  /\ \A i \in 1..Len(qa_data) : ~HasHash(qa_data, i, svc_ret'.hash)

\* C35: delete_qa or update_qa called with a hash that matches no entry
\* leaves qa_data, question_embeddings, the QA file and the embedding cache
\* as they were, starts no embedding and takes no credential.
C35_NotFoundChangesNothing ==
  [][NotFoundCall =>
       /\ UNCHANGED <<qa_data, question_embeddings, qa_json, cache_file>>
       /\ svc_pc' = svc_pc /\ svc_call' = svc_call
       /\ UNCHANGED <<keys, last_used_key_index, granted>>]_vars

\* an update_qa that matched none of the entries of the list returned
C35_Witness ==
  /\ svc_ret.op = "update_qa" /\ svc_ret.index = 0 /\ svc_ret.val = "ok"
  /\ Len(qa_data) = MaxItems
  /\ \A i \in 1..Len(qa_data) : ~HasHash(qa_data, i, svc_ret.hash)

\* task t holds the AppState mutex and waits for the QAService mutex
HoldsStateWaitsService(t) == state_lock = t /\ handler[t].pc = "reply_config"

\* task t holds the QAService mutex and waits for the AppState mutex
HoldsServiceWaitsState(t) == qa_lock = t /\ handler[t].pc \in {"prompt_state", "reply_remove"}

\* C36: no reachable state has one task holding the AppState mutex and
\* waiting for the QAService mutex while another task holds the QAService
\* mutex and waits for the AppState mutex.
C36_NoLockCycle ==
  ~\E t, u \in Tasks : HoldsStateWaitsService(t) /\ HoldsServiceWaitsState(u)

\* a step in which add_qa or update_qa of task t returns after
\* generate_embedding_with_retry gave it the error
EmbedFailedReturn(t) ==
  /\ svc_pc[t] = "embed"
  /\ svc_call[t].op \in {"add_qa", "update_qa"}
  /\ svc_pc'[t] = "idle"
  /\ ~svc_ret'.embedded

\* C37: when the embedding fails inside add_qa or update_qa, the call
\* returns the error, and qa_data, question_embeddings, the QA JSON file and
\* the embedding cache file are as they were before the call.
C37_EmbedFailureChangesNothing ==
  [][\A t \in Tasks :
       EmbedFailedReturn(t) =>
         /\ svc_ret'.val = "err"
         /\ svc_ret'.proc = t
         /\ qa_data' = svc_call[t].seen[1].qa_data
         /\ question_embeddings' = svc_call[t].seen[1].question_embeddings
         /\ qa_json' = svc_call[t].seen[1].qa_json
         /\ UNCHANGED cache_file]_vars

\* add_qa or update_qa has returned the error of the embedding to a service
\* that holds items and whose cache file holds vectors
C37_Witness ==
  /\ svc_ret.op \in {"add_qa", "update_qa"}
  /\ svc_ret.val = "err"
  /\ ~svc_ret.embedded
  /\ qa_data # <<>>
  /\ DOMAIN cache_file # {}

\* a step in which load_and_embed_all returns the error of
\* generate_embedding_with_retry from its loop
LoadEmbedFailed ==
  /\ svc_pc[Loader] = "load_items"
  /\ Len(final_embeddings) < Len(qa_data)
  /\ svc_pc'[Loader] = "done"
  /\ svc_ret'.val = "err"

\* C38: a load_and_embed_all that returns an error because an embedding
\* failed leaves the embedding cache file as it was before the call: no step
\* of the pass, from the call to the failing turn of the loop, writes it.
C38_FailedLoadKeepsCache ==
  [][(svc_pc'[Loader] = "load_items" \/ LoadEmbedFailed) => UNCHANGED cache_file]_vars

\* the load has returned the error of an embedding after it had generated
\* the vector of an earlier entry, which the cache file does not hold
C38_Witness ==
  /\ svc_ret.proc = Loader /\ svc_ret.val = "err" /\ svc_ret.load # None
  /\ LET calls == svc_ret.load[1].calls
         generated == {calls[k] : k \in 1..Len(calls)}
     IN /\ generated # {}
        /\ \A txt \in generated : get_question_hash(txt) \notin DOMAIN cache_file
        /\ \E i \in 1..Len(qa_data) :
              /\ qa_data[i].question \notin generated
              /\ get_question_hash(qa_data[i].question) \notin DOMAIN svc_ret.load[1].cache

\* the load of the restarted process has returned
Reloaded == restarted_from # None /\ svc_pc[Loader] = "done"

\* C39: after a load that returned Ok and calls of add_qa, update_qa and
\* delete_qa that returned Ok, the cache file holds the question hash of
\* every entry of qa_data, and the load of a restarted process returns Ok
\* without a provider call, with the entries and the vectors the service had.
C39_RestartRebuildsFromCache ==
  /\ LoadedOnce =>
        \A i \in 1..Len(qa_data) : get_question_hash(qa_data[i].question) \in DOMAIN cache_file
  /\ Reloaded =>
        /\ svc_ret.val = "ok"
        /\ svc_ret.load[1].calls = <<>>
        /\ qa_data = restarted_from[1].qa_data
        /\ question_embeddings = restarted_from[1].question_embeddings

\* the restarted process has loaded two entries, the last call before the
\* restart being an update_qa that replaced an entry
C39_Witness ==
  /\ Reloaded
  /\ Len(qa_data) = 2
  /\ restarted_from[1].last.op = "update_qa"
  /\ restarted_from[1].last.val = "ok"
  /\ restarted_from[1].last.index > 0

\* C40: in the edit flow the message that the QA pair was updated is sent
\* only after an update_qa that replaced an entry: when the entry of the
\* pending edit's old_question_hash is gone at the reply, no success message
\* is sent.
C40_SuccessOnlyIfReplaced ==
  \A t \in Tasks : sent[t].text = "updated" => sent[t].replaced
====
